---- MODULE Spec2Model ----
(***************************************************************************)
(* Model of the exam-paper extraction server:                              *)
(*   - OCRService.extractText (src/services/ocrService.js): primary        *)
(*     backend with retries, health-checked docTR, fallback backend;       *)
(*   - POST /api/extract/listening|reading|writing                         *)
(*     (src/unnamed/part_000): temporary files, the LLM retry loop, the    *)
(*     post-processing stages, the response and the cleanup.               *)
(***************************************************************************)
EXTENDS Integers, Sequences, FiniteSets, TLC

\* ------------------------------------------------------------------------
\* Bounds of the model (not program constants)
\* ------------------------------------------------------------------------
\* largest maxRetries option the constructor is given
MaxRetriesOpt == 2
\* largest number of parts in the structure handed to the pipeline
MaxParts == 3
\* largest number of parts in the structure the LLM returns when the whole
\* request (LLM retry loop included) is explored
MaxReqParts == 1

\* largest number of parts in the argument of a helper function that is
\* called on its own
MaxFnParts == 1

\* largest number of questions in the part linkMatchingQuestions is tried on
MaxLinkQuestions == 3
\* largest length (in pieces) of the text cleanOCRText is tried on
MaxTextLen == 4
\* milliseconds that pass while the two concurrent requests are observed
MaxClock == 2
\* most questions of one part in the numbering calls (a divider may precede them)
MaxEntries == 10
\* admin requests received in one run of the database routes
MaxRequests == 3

\* ------------------------------------------------------------------------
\* Program constants
\* ------------------------------------------------------------------------
\* this.maxRetries = options.maxRetries || 2
DefaultMaxRetries == 2
\* const maxAttempts = 3 (LLM retry loop of the extraction endpoints)
maxAttempts == 3

VARIABLES
    \* ---- OCRService instance and one extractText call ----
    primaryService,     \* this.primaryService
    fallbackService,    \* this.fallbackService
    maxRetries,         \* this.maxRetries
    ocrPc,              \* position of the extractText call
    attempts,           \* let attempts (extractText)
    lastError,          \* let lastError (extractText): message or NoError
    ocrResult,          \* service tag of the returned result, or NoResult
    ocrThrown,          \* message of the raised error (sequence of parts)
    trace,              \* history of backend events of the call
    \* ---- one POST /api/extract/<endpoint> request ----
    endpoint,           \* which of the three extraction routes is running
    pc,                 \* position of the request handler
    tempDirExists,      \* the request's uploads/pdf-<ms> directory is on disk
    pdfExists,          \* the uploaded PDF (pdfFile.path) is on disk
    applied,            \* post-processing steps run so far, in order
    uploadedImages,     \* const uploadedImages (extractAndUploadImages)
    llmAttempts,        \* let attempts (LLM retry loop)
    llmCalls,           \* number of openai.chat.completions.create calls
    llmLog,             \* outcome of each completion, in order
    parsed,             \* value parseJsonSafely returned (kept for reference)
    structure,          \* let structure
    validation,         \* const validation (stage 8)
    response,           \* what res.json / res.status(500).json sent
    \* ---- one call of a helper function on its own ----
    fnName,             \* the function called
    fnArg,              \* its argument
    fnPc,               \* "idle", "call", "returned" or "raised"
    fnResult,           \* the value returned (when fnPc = "returned")
    \* ---- two extraction requests and the uploads directory they share ----
    clock,              \* Date.now(), in milliseconds
    cPc,                \* position of each request handler
    cDir,               \* const tempDir of each request (named by its pdf-<ms>)
    cFs,                \* the temporary directories on disk and their page images
    cImageFiles,        \* const imageFiles of each request
    cInput,             \* the page images the OCR of each request has read
    cOutcome,           \* the response of each request
    \* ---- the Supabase tables and the admin requests that write them ----
    activeTests,        \* table active_tests: is_active of the row of each test_id
    userAssignedTests,  \* table user_assigned_tests: rows per (user_id, test_id)
    examEntryApprovals, \* table exam_entry_approvals: the rows, by id
    dPc,                \* the database call each request handler makes next
    dArg,               \* route and req.body of each request
    dLog                \* the requests received and responses sent, in order

ocrVars == <<primaryService, fallbackService, maxRetries, ocrPc, attempts,
             lastError, ocrResult, ocrThrown, trace>>

reqVars == <<endpoint, pc, tempDirExists, pdfExists, applied, uploadedImages, llmAttempts, llmCalls, llmLog, parsed,
             structure, validation, response>>

fnVars == <<fnName, fnArg, fnPc, fnResult>>

conVars == <<clock, cPc, cDir, cFs, cImageFiles, cInput, cOutcome>>

dbVars == <<activeTests, userAssignedTests, examEntryApprovals, dPc, dArg, dLog>>

vars == <<ocrVars, reqVars, fnVars, conVars, dbVars>>

\* ========================================================================
\* OCRService.extractText
\* ========================================================================
NoError == "null"
NoResult == "none"

\* messages of the errors extractTextWithDocTR can throw (axios failure,
\* unsuccessful response) and Tesseract.recognize can reject with
DocTRErrors == {"docTR request failed", "docTR service returned unsuccessful response"}
TesseractErrors == {"tesseract worker failed", "tesseract cannot read image"}
UnhealthyFallbackMsg == "docTR fallback service is also unhealthy"

\* constructor: options.maxRetries || 2
CtorMaxRetries(opt) == IF opt = 0 THEN DefaultMaxRetries ELSE opt

Event(ev, phase, svc, ok, msg) ==
    [ev |-> ev, phase |-> phase, svc |-> svc, ok |-> ok, msg |-> msg]

\* while (attempts < this.maxRetries)
PrimaryLoopCond_MutOffByOne(att, mr) == att <= mr
PrimaryLoopCond(att, mr) == att < mr

\* if (attempts < this.maxRetries) { await 1s } -- position after the catch
AfterPrimaryCatch(att, mr) == IF att < mr THEN "delay" ELSE "loop"

\* if (await this.isDocTRHealthy()) return await extractTextWithDocTR(..)
\* else throw -- position after the primary health check
AfterPrimaryHealth_MutIgnoreHealth(healthy) == "pDoctr"
AfterPrimaryHealth(healthy) == IF healthy THEN "pDoctr" ELSE "pCatchUnhealthy"

\* service tags of the results
DocTRTag == "docTR"
TesseractTag == "Tesseract"

\* message of the error raised when the fallback fails too
BothFailedMessage(prim, fb, lastMsg, fbMsg) ==
    <<"Both primary (", prim, ") and fallback (", fb,
      ") OCR services failed. Last error: ", lastMsg>>

OcrConfigUnchanged ==
    /\ UNCHANGED <<primaryService, fallbackService, maxRetries>>
    /\ UNCHANGED <<reqVars, fnVars, conVars, dbVars>>

\* while (attempts < maxRetries) { attempts++ ; try { if primary === doctr
PrimaryAttemptStart ==
    /\ ocrPc = "loop"
    /\ PrimaryLoopCond(attempts, maxRetries)
    /\ attempts' = attempts + 1
    /\ ocrPc' = IF primaryService = "doctr" THEN "pHealth" ELSE "pTess"
    /\ UNCHANGED <<lastError, ocrResult, ocrThrown, trace>>
    /\ OcrConfigUnchanged

\* await this.isDocTRHealthy() in the primary loop
PrimaryHealthCheck ==
    /\ ocrPc = "pHealth"
    /\ \E healthy \in BOOLEAN :
        /\ trace' = Append(trace, Event("health", "primary", "doctr", healthy, ""))
        /\ ocrPc' = AfterPrimaryHealth(healthy)
    /\ UNCHANGED <<attempts, lastError, ocrResult, ocrThrown>>
    /\ OcrConfigUnchanged

\* throw new Error('docTR service is unhealthy') caught by the loop's catch
PrimaryUnhealthyCatch ==
    LET
        UnhealthyPrimaryMsg == "docTR service is unhealthy"
    IN
        /\ ocrPc = "pCatchUnhealthy"
        /\ lastError' = UnhealthyPrimaryMsg
        /\ ocrPc' = AfterPrimaryCatch(attempts, maxRetries)
        /\ UNCHANGED <<attempts, ocrResult, ocrThrown, trace>>
        /\ OcrConfigUnchanged

\* return await this.extractTextWithDocTR(imagePath) in the primary loop
PrimaryDocTR ==
    /\ ocrPc = "pDoctr"
    /\ \/ /\ trace' = Append(trace, Event("extract", "primary", "doctr", TRUE, ""))
          /\ ocrResult' = DocTRTag
          /\ ocrPc' = "returned"
          /\ UNCHANGED lastError
       \/ \E e \in DocTRErrors :
          /\ trace' = Append(trace, Event("extract", "primary", "doctr", FALSE, e))
          /\ lastError' = e
          /\ ocrPc' = AfterPrimaryCatch(attempts, maxRetries)
          /\ UNCHANGED ocrResult
    /\ UNCHANGED <<attempts, ocrThrown>>
    /\ OcrConfigUnchanged

\* return await this.extractTextWithTesseract(imagePath) in the primary loop
PrimaryTesseract ==
    /\ ocrPc = "pTess"
    /\ \/ /\ trace' = Append(trace, Event("extract", "primary", "tesseract", TRUE, ""))
          /\ ocrResult' = TesseractTag
          /\ ocrPc' = "returned"
          /\ UNCHANGED lastError
       \/ \E e \in TesseractErrors :
          /\ trace' = Append(trace, Event("extract", "primary", "tesseract", FALSE, e))
          /\ lastError' = e
          /\ ocrPc' = AfterPrimaryCatch(attempts, maxRetries)
          /\ UNCHANGED ocrResult
    /\ UNCHANGED <<attempts, ocrThrown>>
    /\ OcrConfigUnchanged

\* await new Promise(resolve => setTimeout(resolve, 1000))
RetryDelay ==
    /\ ocrPc = "delay"
    /\ trace' = Append(trace, Event("delay", "primary", primaryService, TRUE, ""))
    /\ ocrPc' = "loop"
    /\ UNCHANGED <<attempts, lastError, ocrResult, ocrThrown>>
    /\ OcrConfigUnchanged

\* loop exit: if (fallbackService !== primaryService) {..} ; throw lastError
PrimaryExhausted ==
    /\ ocrPc = "loop"
    /\ ~PrimaryLoopCond(attempts, maxRetries)
    /\ IF fallbackService # primaryService
         THEN /\ ocrPc' = IF fallbackService = "doctr" THEN "fHealth" ELSE "fTess"
              /\ UNCHANGED ocrThrown
         ELSE /\ ocrPc' = "thrown"
              /\ ocrThrown' = <<lastError>>
    /\ UNCHANGED <<attempts, lastError, ocrResult, trace>>
    /\ OcrConfigUnchanged

\* fallback: if (await this.isDocTRHealthy()) ... else throw, caught by
\* catch (fallbackError) which raises the "Both ... failed" error
FallbackHealthCheck ==
    /\ ocrPc = "fHealth"
    /\ \E healthy \in BOOLEAN :
        /\ trace' = Append(trace, Event("health", "fallback", "doctr", healthy, ""))
        /\ IF healthy
             THEN /\ ocrPc' = "fDoctr"
                  /\ UNCHANGED ocrThrown
             ELSE /\ ocrPc' = "thrown"
                  /\ ocrThrown' = BothFailedMessage(primaryService, fallbackService,
                                                    lastError, UnhealthyFallbackMsg)
    /\ UNCHANGED <<attempts, lastError, ocrResult>>
    /\ OcrConfigUnchanged

\* fallback: return await this.extractTextWithDocTR(imagePath)
FallbackDocTR ==
    /\ ocrPc = "fDoctr"
    /\ \/ /\ trace' = Append(trace, Event("extract", "fallback", "doctr", TRUE, ""))
          /\ ocrResult' = DocTRTag
          /\ ocrPc' = "returned"
          /\ UNCHANGED ocrThrown
       \/ \E e \in DocTRErrors :
          /\ trace' = Append(trace, Event("extract", "fallback", "doctr", FALSE, e))
          /\ ocrThrown' = BothFailedMessage(primaryService, fallbackService, lastError, e)
          /\ ocrPc' = "thrown"
          /\ UNCHANGED ocrResult
    /\ UNCHANGED <<attempts, lastError>>
    /\ OcrConfigUnchanged

\* fallback: return await this.extractTextWithTesseract(imagePath)
FallbackTesseract ==
    /\ ocrPc = "fTess"
    /\ \/ /\ trace' = Append(trace, Event("extract", "fallback", "tesseract", TRUE, ""))
          /\ ocrResult' = TesseractTag
          /\ ocrPc' = "returned"
          /\ UNCHANGED ocrThrown
       \/ \E e \in TesseractErrors :
          /\ trace' = Append(trace, Event("extract", "fallback", "tesseract", FALSE, e))
          /\ ocrThrown' = BothFailedMessage(primaryService, fallbackService, lastError, e)
          /\ ocrPc' = "thrown"
          /\ UNCHANGED ocrResult
    /\ UNCHANGED <<attempts, lastError>>
    /\ OcrConfigUnchanged

\* ========================================================================
\* Exam document as the LLM returns it (JSON)
\* ========================================================================
\* a numeric field that is not there (undefined)
Absent == -1
\* a part field that is text and not a number (such as "Task 1"): truthy,
\* and NaN in arithmetic
NonNumeric == -2
\* the number NaN, and the null JSON.stringify writes for it
NaN == -3
Null == -4
\* a string field that is not there is "", a text that is built from pieces
\* (questionId, numberRange, instructions, questionsRange) is a sequence of
\* pieces and <<>> when it is not there

\* characters that matter to the id normalization, named by code point
Hyphen == "-"
EnDash == "U+2013"
\* !x for a number: undefined and 0 are falsy
FalsyNum(n) == n \in {Absent, Null, NaN, 0}

\* String(n) inside a template literal
Str(n) == CASE n = NonNumeric -> "Task 1"
            [] n = NaN -> "NaN"
            [] n = Null -> "null"
            [] n = Absent -> "undefined"
            [] OTHER -> ToString(n)

\* arithmetic on a part field: x * 10 + c, NaN when x is not a number
Times10Plus(x, c) == IF x \in {NonNumeric, NaN, Absent} THEN NaN ELSE x * 10 + c

NoDV == [present |-> FALSE, items |-> <<>>]
\* a question object with no field set
EmptyQuestion ==
    LET
        NoAnswer == [present |-> FALSE, correct |-> "", accepted |-> <<>>]
    IN
        [text |-> "", instructions |-> "", type |-> "", number |-> Absent,
         questionId |-> <<>>, numberRange |-> <<>>, inputType |-> "",
         answerConstraints |-> "", isInteractive |-> "", answer |-> NoAnswer,
         hasOptions |-> FALSE, draggableVariants |-> NoDV,
         url |-> "", headline |-> "", base64 |-> ""]

\* questions the LLM emits in this model:
\* QA a gap-fill item with a number and an id the LLM made up, no type;
\* QB a divider carrying the drag labels of a matching block;
\* QC a map-labelling item with no number and no id.
QA == [EmptyQuestion EXCEPT !.text = "name of hotel: ____",
                            !.number = 7,
                            !.questionId = <<"listening", EnDash, "1", EnDash, "1", EnDash, "7">>,
                            !.isInteractive = "true",
                            !.answer = [present |-> TRUE, correct |-> "ritz", accepted |-> <<"ritz">>]]
QB ==
    LET
        EmDash == "U+2014"
    IN
          [EmptyQuestion EXCEPT !.text = "choose from the box",
                                !.type = "divider",
                                !.numberRange = <<"1", EmDash, "5">>,
                                !.draggableVariants = [present |-> TRUE, items |-> <<"X", "Y">>]]
QC == [EmptyQuestion EXCEPT !.text = "station ...",
                            !.type = "map-labelling"]
QPool == {QA, QB, QC}
\* an image the LLM emitted itself, with its payload
QImage == [EmptyQuestion EXCEPT !.type = "image", !.base64 = "data:image/png;base64,AAAA"]

LLMInstructions == <<"label the map below">>
LLMQuestionsRange == <<"1", EnDash, "10">>

\* a part object; a part the LLM gave no part number carries nothing else
\* either, not even a questions field when it has no question
\* (hasQuestions = FALSE)
MkPart(pn, qs) ==
    [part |-> pn,
     instructions |-> IF pn = Absent THEN <<>> ELSE LLMInstructions,
     questionsRange |-> IF pn = Absent THEN <<>> ELSE LLMQuestionsRange,
     hasQuestions |-> ~(pn = Absent /\ qs = <<>>),
     questions |-> qs]

\* sequences of distinct questions of the pool
RECURSIVE DistinctSeqs(_)
DistinctSeqs(S) ==
    IF S = {} THEN {<<>>}
    ELSE {<<>>} \cup UNION {{<<q>> \o t : t \in DistinctSeqs(S \ {q})} : q \in S}

SubSeqOf(s, a, b) == [i \in 1..(b - a + 1) |-> s[a + i - 1]]

LLMTest == "2"
LLMSection == "Listening"

\* let structure (undefined until a completion has been parsed)
NoStructure == [defined |-> FALSE, test |-> "", section |-> "",
                hasParts |-> FALSE, parts |-> <<>>]

\* objects parseJsonSafely returns in this model: a document with a parts
\* array of up to maxP parts, or an object with no parts field
LLMDocument(ps) ==
    [defined |-> TRUE, test |-> LLMTest, section |-> LLMSection,
     hasParts |-> TRUE, parts |-> ps]
IsLLMStructure(doc, maxP, partNums) ==
    LET
        \* the ways to cut a sequence of n questions into p consecutive chunks
        Cuts(p, n) == {c \in [0..p -> 0..n] :
                          /\ c[0] = 0
                          /\ c[p] = n
                          /\ \A i \in 1..p : c[i - 1] <= c[i]}
    IN
        LET
            LLMNoParts ==
                [defined |-> TRUE, test |-> "", section |-> "", hasParts |-> FALSE, parts |-> <<>>]
        IN
            LET
                \* a parts array the LLM emits: p parts holding the questions qs (questions
                \* of the pool, each at most once) cut at c, with part numbers pn
                LLMPartsArray(p, qs, c, pn) ==
                    [i \in 1..p |-> MkPart(pn[i], SubSeqOf(qs, c[i - 1] + 1, c[i]))]
            IN
                \/ doc = LLMNoParts
                \/ \E p \in 0..maxP : \E qs \in DistinctSeqs(QPool) :
                      \E c \in Cuts(p, Len(qs)) : \E pn \in [1..p -> partNums] :
                         doc = LLMDocument(LLMPartsArray(p, qs, c, pn))

\* uploaded images ({url, filename, isMap}) of a request
MapImage == [url |-> "http://localhost:3001/uploads/map.png", isMap |-> TRUE]
UploadedImageLists ==
    LET
        PlainImage == [url |-> "http://localhost:3001/uploads/page.png", isMap |-> FALSE]
    IN
        {<<>>, <<PlainImage>>, <<PlainImage, MapImage>>}

\* ========================================================================
\* Stage 1: mergeDuplicateParts
\* ========================================================================
\* part.questions || []
QuestionsOrEmpty(part) == IF part.hasQuestions THEN part.questions ELSE <<>>

RECURSIVE MergeEntries(_, _, _)
MergeEntries(entries, parts, i) ==
    LET
        \* one iteration of parts.forEach
        MergeStep(acc, part) ==
            LET
                \* position in the Map's values of the entry with key k, 0 if none
                KeyIndex(es, k) ==
                    IF \E j \in 1..Len(es) : es[j].part = k
                      THEN CHOOSE j \in 1..Len(es) : es[j].part = k
                      ELSE 0
            IN
                LET j == KeyIndex(acc, part.part)
                IN  IF j > 0
                      THEN [acc EXCEPT ![j].hasQuestions = TRUE,
                                           ![j].questions = QuestionsOrEmpty(acc[j])
                                                              \o QuestionsOrEmpty(part)]
                      ELSE Append(acc, [part EXCEPT !.hasQuestions = TRUE,
                                                        !.questions = QuestionsOrEmpty(part)])
    IN
        IF i > Len(parts) THEN entries
        ELSE MergeEntries(MergeStep(entries, parts[i]), parts, i + 1)

mergeDuplicateParts(parts) ==
    LET
        \* (a, b) => a.part - b.part ; a NaN result counts as 0 (SortCompare)
        ComparePart(a, b) ==
            IF {a.part, b.part} \cap {Absent, NonNumeric} # {} THEN 0 ELSE a.part - b.part
        \* Array.prototype.sort on a short array (V8: one run, then binary insertion)
        \* length of the initial run of s, which is descending when desc
        RECURSIVE RunLength(_, _, _)
        RunLength(s, idx, desc) ==
            IF idx > Len(s) THEN Len(s)
            ELSE LET order == ComparePart(s[idx], s[idx - 1])
                 IN  IF (desc /\ order >= 0) \/ (~desc /\ order < 0)
                       THEN idx - 1
                       ELSE RunLength(s, idx + 1, desc)
        \* position where the pivot is inserted in s[left..right-1]
        RECURSIVE BinarySearchPos(_, _, _, _)
        BinarySearchPos(s, pivot, left, right) ==
            IF left >= right THEN left
            ELSE LET mid == left + ((right - left) \div 2)
                 IN  IF ComparePart(pivot, s[mid]) < 0
                       THEN BinarySearchPos(s, pivot, left, mid)
                       ELSE BinarySearchPos(s, pivot, mid + 1, right)
        RECURSIVE BinaryInsertionSort(_, _)
        BinaryInsertionSort(s, start) ==
            LET
                \* a with a[from] moved to position pos <= from
                MoveTo(a, from, pos) ==
                    [i \in 1..Len(a) |->
                        IF i < pos \/ i > from THEN a[i]
                        ELSE IF i = pos THEN a[from] ELSE a[i - 1]]
            IN
                IF start > Len(s) THEN s
                ELSE BinaryInsertionSort(
                        MoveTo(s, start, BinarySearchPos(s, s[start], 1, start)),
                        start + 1)
        Reverse(s) == [i \in 1..Len(s) |-> s[Len(s) + 1 - i]]
    IN
        LET
            SortByPart(s) ==
                IF Len(s) < 2 THEN s
                ELSE LET desc == ComparePart(s[2], s[1]) < 0
                         run == RunLength(s, 3, desc)
                         s1 == IF desc
                                 THEN Reverse(SubSeqOf(s, 1, run)) \o SubSeqOf(s, run + 1, Len(s))
                                 ELSE s
                     IN  BinaryInsertionSort(s1, run + 1)
        IN
                                      SortByPart(MergeEntries(<<>>, parts, 1))

\* ========================================================================
\* Stage 2: validateAndFixStructure
\* ========================================================================
\* s.toLowerCase().includes(kw) for the texts of this model
LowerIncludes(s, kw) ==
    <<s, kw>> \in {<<"name of hotel: ____", "____">>,
                   <<"station ...", "...">>,
                   <<"label the map below", "map">>,
                   <<"label the map below", "label">>}

autoDetectQuestionType(question) ==
    LET text == question.text
        instructions == question.instructions
        has(kw) == LowerIncludes(instructions, kw)
    IN  IF LowerIncludes(text, "____") \/ LowerIncludes(text, "...")
          THEN IF has("map") \/ has("diagram") \/ has("label")
                 THEN "map-labelling"
               ELSE IF has("form") \/ has("notes") \/ has("table")
                 THEN "form-fill"
               ELSE "sentence-completion"
        ELSE IF question.hasOptions
          THEN IF has("choose two") \/ has("choose three")
                 THEN "multi-select"
                 ELSE "multiple-choice"
        ELSE IF question.draggableVariants.present \/ has("match")
          THEN "matching"
        ELSE IF has("short answer") \/ has("no more than")
          THEN "short-answer"
        ELSE "form-fill"

getInputTypeForQuestionType(type) ==
    CASE type = "form-fill" -> "text"
      [] type = "multiple-choice" -> "radio"
      [] type = "multi-select" -> "checkbox"
      [] type = "matching" -> "drag"
      [] type = "map-labelling" -> "text"
      [] type = "short-answer" -> "text"
      [] type = "sentence-completion" -> "text"
      [] OTHER -> "text"

getDefaultAnswerConstraints(type) ==
    CASE type = "form-fill" -> "ONE WORD AND/OR A NUMBER"
      [] type = "multiple-choice" -> "CHOOSE THE CORRECT LETTER A, B OR C"
      [] type = "multi-select" -> "CHOOSE TWO LETTERS A-E"
      [] type = "matching" -> "CHOOSE FROM THE BOX A-H"
      [] type = "map-labelling" -> "LABEL FROM MAP A-H"
      [] type = "short-answer" -> "NO MORE THAN THREE WORDS"
      [] type = "sentence-completion" -> "ONE WORD ONLY"
      [] OTHER -> "ONE WORD AND/OR A NUMBER"

\* `listening-${test}-${part}-${tail}`
ListeningId(test, partNo, tail) ==
    <<"listening", Hyphen, test, Hyphen, Str(partNo), Hyphen, tail>>

\* body of part.questions.forEach((question, qIndex) => ...), qIndex 0-based
FixQuestion(question, qIndex, test, partNo) ==
    LET
        \* { correct: "", accepted: [] }
        DefaultAnswer == [present |-> TRUE, correct |-> "", accepted |-> <<>>]
    IN
        LET q1 == IF question.questionId = <<>>
                    THEN [question EXCEPT !.questionId = ListeningId(test, partNo, Str(qIndex + 1))]
                    ELSE question
            q2 == IF FalsyNum(q1.number)
                    THEN [q1 EXCEPT !.number = Times10Plus(partNo, qIndex + 1 - 10)]
                    ELSE q1
            q3 == IF q2.type = ""
                    THEN [q2 EXCEPT !.type = autoDetectQuestionType(q2)]
                    ELSE q2
            q4 == IF q3.inputType = ""
                    THEN [q3 EXCEPT !.inputType = getInputTypeForQuestionType(q3.type)]
                    ELSE q3
            q5 == IF q4.answerConstraints = ""
                    THEN [q4 EXCEPT !.answerConstraints = getDefaultAnswerConstraints(q4.type)]
                    ELSE q4
            q6 == IF q5.isInteractive = ""
                    THEN [q5 EXCEPT !.isInteractive = "true"]
                    ELSE q5
        IN  IF ~q6.answer.present THEN [q6 EXCEPT !.answer = DefaultAnswer] ELSE q6

\* body of structure.parts.forEach((part, index) => ...), index 0-based
FixPart(part, index, test) ==
    LET
        \* if (!part.part) part.part = idx + 1   (idx 0-based)
        DefaultPartNumber(n, idx) == IF FalsyNum(n) THEN idx + 1 ELSE n
    IN
        LET partNo == DefaultPartNumber(part.part, index)
            qs == QuestionsOrEmpty(part)
        IN  [part |-> partNo,
             instructions |-> IF part.instructions = <<>>
                                THEN <<"Part ", Str(partNo), " instructions">>
                                ELSE part.instructions,
             questionsRange |-> IF part.questionsRange = <<>>
                                  THEN <<Str(Times10Plus(partNo, 1 - 10)), Hyphen,
                                         Str(Times10Plus(partNo, 0))>>
                                  ELSE part.questionsRange,
             hasQuestions |-> TRUE,
             questions |-> [i \in 1..Len(qs) |-> FixQuestion(qs[i], i - 1, test, partNo)]]

validateAndFixStructure(st) ==
    LET test == IF st.test = "" THEN "1" ELSE st.test
        section == IF st.section = "" THEN "Listening" ELSE st.section
        parts == IF st.hasParts THEN st.parts ELSE <<>>
    IN  [defined |-> TRUE, test |-> test, section |-> section, hasParts |-> TRUE,
         parts |-> [i \in 1..Len(parts) |-> FixPart(parts[i], i - 1, test)]]

\* ========================================================================
\* Stage 3: injectImageObjects
\* ========================================================================
JsonRoundTrip(st) ==
    LET
        \* JSON.parse(JSON.stringify(structure)): a deep copy in which a number
        \* that is NaN has become null
        JsonNumber(n) == IF n = NaN THEN Null ELSE n
    IN
        [st EXCEPT !.parts =
            [p \in 1..Len(st.parts) |->
                [st.parts[p] EXCEPT
                    !.part = JsonNumber(@),
                    !.questions = [i \in 1..Len(st.parts[p].questions) |->
                                      [st.parts[p].questions[i] EXCEPT
                                          !.number = JsonNumber(@)]]]]]

\* uploadedImages.find(img => img.isMap): its position, 0 if none
FirstMapImage_MutAnyImage(images) == IF Len(images) > 0 THEN 1 ELSE 0
FirstMapImage(images) ==
    IF \E i \in 1..Len(images) : images[i].isMap
      THEN CHOOSE i \in 1..Len(images) :
              images[i].isMap /\ \A j \in 1..(i - 1) : ~images[j].isMap
      ELSE 0

\* the for loop over part.questions, building newQuestions
RECURSIVE InjectLoop(_, _, _, _, _, _)
InjectLoop(newQuestions, questions, i, test, partNo, images) ==
    LET
        \* the object pushed before the first map-labelling question
        InjectedImage(t, pn, image) ==
            [EmptyQuestion EXCEPT !.type = "image",
                                  !.questionId = ListeningId(t, pn, "map"),
                                  !.url = image.url,
                                  !.headline = "Map"]
    IN
        LET
            SomeImage(qs) == \E k \in 1..Len(qs) : qs[k].type = "image"
        IN
            IF i > Len(questions) THEN newQuestions
            ELSE LET question == questions[i]
                     m == FirstMapImage(images)
                     pushed == IF question.type = "map-labelling" /\ ~SomeImage(newQuestions) /\ m > 0
                                 THEN Append(newQuestions, InjectedImage(test, partNo, images[m]))
                                 ELSE newQuestions
                 IN  InjectLoop(Append(pushed, question), questions, i + 1, test, partNo, images)

injectImageObjects(st, images) ==
    IF Len(images) = 0 THEN st
    ELSE LET copy == JsonRoundTrip(st)
         IN  [copy EXCEPT !.parts =
                [p \in 1..Len(copy.parts) |->
                    \* part.questions = newQuestions, also when the part had none
                    [copy.parts[p] EXCEPT !.hasQuestions = TRUE, !.questions =
                        InjectLoop(<<>>, QuestionsOrEmpty(copy.parts[p]), 1,
                                   st.test, copy.parts[p].part, images)]]]

\* ========================================================================
\* Stage 4: processBase64Images
\* ========================================================================
\* writeOk: fs.writeFileSync succeeded (on failure the payload is kept)
processBase64Images(structure0, writeOk) ==
    LET
        \* `${question.questionId || `image-${Date.now()}`}.png` under /uploads
        Base64Url(question) == "http://localhost:3001/uploads/<questionId>.png"
    IN
        LET st == JsonRoundTrip(structure0) IN
        [st EXCEPT !.parts =
            [p \in 1..Len(st.parts) |->
                [st.parts[p] EXCEPT !.questions =
                    [i \in 1..Len(st.parts[p].questions) |->
                        LET question == st.parts[p].questions[i]
                        IN  IF question.type = "image" /\ question.base64 # "" /\ writeOk
                              THEN [question EXCEPT !.url = Base64Url(question),
                                                    !.base64 = ""]
                              ELSE question]]]]

\* ========================================================================
\* Stage 5: linkMatchingQuestions
\* ========================================================================
linkMatchingQuestions(structure0) ==
    LET
        \* questions.find(q => q.type === 'divider' && q.draggableVariants)
        FirstVariantDivider(qs) ==
            IF \E i \in 1..Len(qs) : qs[i].type = "divider" /\ qs[i].draggableVariants.present
              THEN CHOOSE i \in 1..Len(qs) :
                      /\ qs[i].type = "divider" /\ qs[i].draggableVariants.present
                      /\ \A j \in 1..(i - 1) :
                            ~(qs[j].type = "divider" /\ qs[j].draggableVariants.present)
              ELSE 0
    IN
        LET st == JsonRoundTrip(structure0) IN
        [st EXCEPT !.parts =
            [p \in 1..Len(st.parts) |->
                LET qs == QuestionsOrEmpty(st.parts[p])
                    d == FirstVariantDivider(qs)
                    draggableVariants == IF d > 0 THEN qs[d].draggableVariants.items ELSE <<>>
                IN  [st.parts[p] EXCEPT !.questions =
                        [i \in 1..Len(qs) |->
                            IF qs[i].type = "matching" /\ Len(draggableVariants) > 0
                              THEN [qs[i] EXCEPT !.draggableVariants =
                                       [present |-> TRUE, items |-> draggableVariants]]
                              ELSE qs[i]]]]]

\* ========================================================================
\* Stage 6: standardizeQuestionIds
\* ========================================================================
ReplaceDashes(text) ==
    LET
        \* the characters of the class in .replace(/[...]/g, '-') as the source
        \* file has them
        DashClass == {"U+00E2", "U+20AC", "U+201C", "U+201D"}
    IN
        [i \in 1..Len(text) |-> IF text[i] \in DashClass THEN Hyphen ELSE text[i]]

standardizeQuestionIds(st) ==
    [st EXCEPT !.parts =
        [p \in 1..Len(st.parts) |->
            [st.parts[p] EXCEPT !.questions =
                [i \in 1..Len(st.parts[p].questions) |->
                    [st.parts[p].questions[i] EXCEPT
                        !.questionId = ReplaceDashes(@),
                        !.numberRange = ReplaceDashes(@)]]]]]

\* ========================================================================
\* Stage 7: enforceQuestionNumbering
\* ========================================================================
\* (partIndex * 10) + questionIndex + 1, both indices 0-based
ExpectedNumber_MutZeroBased(partIndex, questionIndex) == (partIndex * 10) + questionIndex
ExpectedNumber_MutOneBased(partIndex, questionIndex) ==
    (partIndex * 10) + questionIndex + 2
ExpectedNumber(partIndex, questionIndex) == (partIndex * 10) + questionIndex + 1

enforceQuestionNumbering(st) ==
    LET
        \* question.type !== 'divider' && question.type !== 'image'
        IsNumbered(question) == question.type # "divider" /\ question.type # "image"
    IN
        [st EXCEPT !.parts =
            [p \in 1..Len(st.parts) |->
                [st.parts[p] EXCEPT !.questions =
                    [i \in 1..Len(st.parts[p].questions) |->
                        LET question == st.parts[p].questions[i]
                            expectedNumber == ExpectedNumber(p - 1, i - 1)
                        IN  IF IsNumbered(question)
                              THEN [question EXCEPT
                                      !.number = expectedNumber,
                                      !.questionId =
                                          IF @ # <<>>
                                            THEN ListeningId(st.test, st.parts[p].part,
                                                             Str(expectedNumber))
                                            ELSE @]
                              ELSE question]]]]

\* ========================================================================
\* Stage 8: validateRequiredFields
\* ========================================================================
validateRequiredFields(st) ==
    LET
        \* s with the elements that are <<>> left out
        RECURSIVE Flatten(_)
        Flatten(ss) == IF ss = <<>> THEN <<>> ELSE Head(ss) \o Flatten(Tail(ss))
        Err(cond, msg) == IF cond THEN <<msg>> ELSE <<>>
        QuestionErrors(question, partIndex, questionIndex) ==
            IF question.type = "divider" \/ question.type = "image" THEN <<>>
            ELSE LET at(what) == <<"Part", partIndex, "Question", questionIndex, what>>
                 IN  Err(question.questionId = <<>>, at("Missing questionId"))
                     \o Err(FalsyNum(question.number), at("Missing number"))
                     \o Err(question.type = "", at("Missing type"))
                     \o Err(question.inputType = "", at("Missing inputType"))
                     \o Err(question.isInteractive = "", at("Missing isInteractive"))
                     \o Err(~question.answer.present, at("Missing answer object"))
    IN
        LET
            PartErrors(part, partIndex) ==
                LET at(what) == <<"Part", partIndex, "", -1, what>>
                IN  Err(FalsyNum(part.part), at("Missing part number"))
                    \o Err(part.instructions = <<>>, at("Missing instructions"))
                    \o Err(part.questionsRange = <<>>, at("Missing questionsRange"))
                    \o Err(~part.hasQuestions, at("Missing or invalid questions array"))
                    \o Flatten([i \in 1..Len(part.questions) |->
                                    QuestionErrors(part.questions[i], partIndex, i - 1)])
        IN
            LET errors ==
                    Err(st.test = "", <<"", -1, "", -1, "Missing test number">>)
                    \o Err(st.section = "", <<"", -1, "", -1, "Missing section name">>)
                    \o Err(~st.hasParts, <<"", -1, "", -1, "Missing or invalid parts array">>)
                    \o Flatten([p \in 1..Len(st.parts) |-> PartErrors(st.parts[p], p - 1)])
                \* structure.parts.forEach and part.questions.forEach are called
                \* whatever the checks before them found: a TypeError when parts, or
                \* the questions of a part, is not an array
                thrown == \/ ~st.hasParts
                          \/ \E p \in 1..Len(st.parts) : ~st.parts[p].hasQuestions
            IN  [valid |-> Len(errors) = 0, errors |-> errors, thrown |-> thrown]

NoValidation == [valid |-> FALSE, errors |-> <<>>, thrown |-> FALSE]

\* ========================================================================
\* POST /api/extract/listening and /api/extract/reading: request handler
\* ========================================================================
NoResponse == [status |-> 0, success |-> FALSE, error |-> <<>>, fields |-> {}]

\* the three extraction routes
Endpoints == {"listening", "reading", "writing"}

\* the step that follows a post-processing step in the handler of a route:
\* the writing route has no linkMatchingQuestions and no
\* enforceQuestionNumbering call
AfterStage4_MutAlwaysLink(ep) == "stage5"
AfterStage4(ep) == IF ep = "writing" THEN "stage6" ELSE "stage5"
\* if (attempts === maxAttempts) throw ...
IsLastAttempt_MutNever(att) == FALSE
IsLastAttempt(att) == att = maxAttempts

\* if (!rawResponse) { if (attempts === maxAttempts) throw ...; continue }
\* the throw is caught by catch (apiError), which rethrows on the last attempt
AfterEmptyResponse_MutFailFast(att) == "catch"
AfterEmptyResponse(att) == IF IsLastAttempt(att) THEN "catch" ELSE "llmLoop"

ApiFailedMessage(msg) == <<"OpenAI API failed after ", Str(maxAttempts), " attempts: ", msg>>

\* mkdirSync, pdf.convert, extractAndUploadImages, page OCR, getPrompt
PrepareInput ==
    LET
        \* errors thrown before the LLM loop: pdf.convert, ocrService.extractText
        \* (page OCR, not caught there), getPrompt.getStrictSystemPrompt
        PrepareErrors == {"pdf conversion failed",
                          "Both primary (doctr) and fallback (tesseract) OCR services failed",
                          "prompt file not found"}
    IN
        /\ pc = "start"
        /\ tempDirExists' = TRUE
        /\ \/ /\ \E imgs \in UploadedImageLists : uploadedImages' = imgs
              /\ pc' = "llmLoop"
              /\ UNCHANGED response
           \/ /\ \E e \in PrepareErrors : response' = [NoResponse EXCEPT !.error = <<e>>]
              /\ pc' = "catch"
              /\ UNCHANGED uploadedImages
        /\ UNCHANGED <<llmAttempts, llmCalls, llmLog, parsed, structure, validation>>
        /\ UNCHANGED <<ocrVars, fnVars, conVars, dbVars, endpoint, pdfExists, applied>>

\* while (attempts < maxAttempts) { attempts++ ; openai.chat.completions.create
LlmAttemptStart ==
    LET
        \* while (attempts < maxAttempts)
        LlmLoopCond(att) == att < maxAttempts
    IN
        /\ pc = "llmLoop"
        /\ LlmLoopCond(llmAttempts)
        /\ llmAttempts' = llmAttempts + 1
        /\ llmCalls' = llmCalls + 1
        /\ pc' = "llmCall"
        /\ UNCHANGED <<uploadedImages, llmLog, parsed, structure, validation, response>>
        /\ UNCHANGED <<ocrVars, fnVars, conVars, dbVars, endpoint, tempDirExists, pdfExists, applied>>

\* the completion call rejects (transport or API failure)
LlmApiError ==
    LET
        \* catch (apiError): throw on the last attempt, else wait 2 seconds
        AfterApiError(att) == IF IsLastAttempt(att) THEN "catch" ELSE "delay2s"
    IN
        /\ pc = "llmCall"
        /\ llmLog' = Append(llmLog, "api-error")
        /\ pc' = AfterApiError(llmAttempts)
        /\ response' = IF IsLastAttempt(llmAttempts)
                         THEN [NoResponse EXCEPT !.error = ApiFailedMessage("api error")]
                         ELSE response
        /\ UNCHANGED <<uploadedImages, llmAttempts, llmCalls, parsed, structure, validation>>
        /\ UNCHANGED <<ocrVars, fnVars, conVars, dbVars, endpoint, tempDirExists, pdfExists, applied>>

\* the completion has no content
LlmEmptyResponse ==
    /\ pc = "llmCall"
    /\ llmLog' = Append(llmLog, "empty")
    /\ pc' = AfterEmptyResponse(llmAttempts)
    /\ response' = IF IsLastAttempt(llmAttempts)
                     THEN [NoResponse EXCEPT !.error =
                             ApiFailedMessage("Empty response from OpenAI after all attempts")]
                     ELSE response
    /\ UNCHANGED <<uploadedImages, llmAttempts, llmCalls, parsed, structure, validation>>
    /\ UNCHANGED <<ocrVars, fnVars, conVars, dbVars, endpoint, tempDirExists, pdfExists, applied>>

\* OCRService.parseJsonSafely throws
LlmParseFailure ==
    LET
        \* catch (parseError): throw on the last attempt, else wait 1 second
        AfterParseFailure(att) == IF IsLastAttempt(att) THEN "catch" ELSE "delay1s"
    IN
        /\ pc = "llmCall"
        /\ llmLog' = Append(llmLog, "unparsable")
        /\ pc' = AfterParseFailure(llmAttempts)
        /\ response' = IF IsLastAttempt(llmAttempts)
                         THEN [NoResponse EXCEPT !.error =
                                 ApiFailedMessage("Invalid JSON response from AI after 3 attempts")]
                         ELSE response
        /\ UNCHANGED <<uploadedImages, llmAttempts, llmCalls, parsed, structure, validation>>
        /\ UNCHANGED <<ocrVars, fnVars, conVars, dbVars, endpoint, tempDirExists, pdfExists, applied>>

\* structure = OCRService.parseJsonSafely(rawResponse, ...) ; break
LlmParseSuccess ==
    LET
        \* part fields when the whole request is explored: also a label
        ReqPartNums == {Absent, 1, NonNumeric}
    IN
        /\ pc = "llmCall"
        /\ llmLog' = Append(llmLog, "parsed")
        /\ IsLLMStructure(parsed', MaxReqParts, ReqPartNums)
        /\ structure' = parsed'
        /\ pc' = "stage1"
        /\ UNCHANGED <<uploadedImages, llmAttempts, llmCalls, validation, response>>
        /\ UNCHANGED <<ocrVars, fnVars, conVars, dbVars, endpoint, tempDirExists, pdfExists, applied>>

\* await new Promise(resolve => setTimeout(resolve, 1000 or 2000))
LlmRetryDelay ==
    /\ pc \in {"delay1s", "delay2s"}
    /\ pc' = "llmLoop"
    /\ UNCHANGED <<uploadedImages, llmAttempts, llmCalls, llmLog, parsed, structure,
                   validation, response>>
    /\ UNCHANGED <<ocrVars, fnVars, conVars, dbVars, endpoint, tempDirExists, pdfExists, applied>>

StageFrame == /\ UNCHANGED <<uploadedImages, llmAttempts, llmCalls, llmLog, parsed,
                             validation, response>>
              /\ UNCHANGED <<ocrVars, fnVars, conVars, dbVars, endpoint, tempDirExists, pdfExists>>

\* Step 1: Merge duplicate parts
Stage1Merge ==
    LET
        \* structure = mergeDuplicateParts(structure.parts ? structure.parts : [])
        \* structure = { ...structure, parts: structure }
        \* (the spread is of the merged array: test and section are not carried over)
        Stage1Structure(st) ==
            [defined |-> TRUE, test |-> "", section |-> "", hasParts |-> TRUE,
             parts |-> mergeDuplicateParts(IF st.hasParts THEN st.parts ELSE <<>>)]
    IN
        /\ pc = "stage1"
        /\ structure' = Stage1Structure(structure)
        /\ pc' = "stage2"
        /\ applied' = Append(applied, "merge")
        /\ StageFrame

\* Step 2: Validate and fix basic structure
Stage2Validate ==
    /\ pc = "stage2"
    /\ structure' = validateAndFixStructure(structure)
    /\ pc' = "stage3"
    /\ applied' = Append(applied, "validateAndFix")
    /\ StageFrame

\* Step 3: Inject image objects
Stage3Inject ==
    /\ pc = "stage3"
    /\ structure' = injectImageObjects(structure, uploadedImages)
    /\ pc' = "stage4"
    /\ applied' = Append(applied, "injectImages")
    /\ StageFrame

\* Step 4: Process base64 images from OpenAI
Stage4Base64 ==
    /\ pc = "stage4"
    /\ \E writeOk \in BOOLEAN : structure' = processBase64Images(structure, writeOk)
    /\ pc' = AfterStage4(endpoint)
    /\ applied' = Append(applied, "base64")
    /\ StageFrame

\* Step 5: Link matching questions with draggable variants
Stage5Link ==
    /\ pc = "stage5"
    /\ structure' = linkMatchingQuestions(structure)
    /\ pc' = "stage6"
    /\ applied' = Append(applied, "linkMatching")
    /\ StageFrame

\* Step 6: Standardize question IDs
Stage6Ids ==
    LET
        AfterStage6(ep) == IF ep = "writing" THEN "stage8" ELSE "stage7"
    IN
        /\ pc = "stage6"
        /\ structure' = standardizeQuestionIds(structure)
        /\ pc' = AfterStage6(endpoint)
        /\ applied' = Append(applied, "standardizeIds")
        /\ StageFrame

\* Step 7: Enforce proper question numbering
Stage7Numbering ==
    /\ pc = "stage7"
    /\ structure' = enforceQuestionNumbering(structure)
    /\ pc' = "stage8"
    /\ applied' = Append(applied, "enforceNumbering")
    /\ StageFrame

\* Step 8: Final validation
Stage8FinalValidation ==
    LET
        ForEachTypeError == "Cannot read properties of undefined (reading 'forEach')"
    IN
        /\ pc = "stage8"
        /\ LET result == validateRequiredFields(structure)
           IN  IF result.thrown
                 THEN /\ pc' = "catch"
                      /\ response' = [NoResponse EXCEPT !.error = <<ForEachTypeError>>]
                      /\ UNCHANGED validation
                 ELSE /\ validation' = result
                      /\ pc' = "respond"
                      /\ UNCHANGED response
        /\ applied' = Append(applied, "finalValidation")
        /\ UNCHANGED <<uploadedImages, llmAttempts, llmCalls, llmLog, parsed, structure>>
        /\ UNCHANGED <<ocrVars, fnVars, conVars, dbVars, endpoint, tempDirExists, pdfExists>>

\* fs.rmSync(tempDir, ...); fs.unlinkSync(pdfFile.path);
\* res.json({ success: true, structure, uploadedImages })
RespondSuccess ==
    LET
        \* keys of the JSON body of the success and of the failure response
        SuccessFields == {"success", "structure", "uploadedImages"}
    IN
        /\ pc = "respond"
        /\ tempDirExists' = FALSE
        /\ pdfExists' = FALSE
        /\ response' = [status |-> 200, success |-> TRUE, error |-> <<>>,
                        fields |-> SuccessFields]
        /\ pc' = "done"
        /\ UNCHANGED <<uploadedImages, llmAttempts, llmCalls, llmLog, parsed, structure,
                       validation>>
        /\ UNCHANGED <<ocrVars, fnVars, conVars, dbVars, endpoint, applied>>

\* catch (error): if (fs.existsSync(tempDir)) fs.rmSync(tempDir, ...);
\* res.status(500).json({ success: false, error: error.message })
RespondFailure ==
    LET
        FailureFields == {"success", "error"}
    IN
        /\ pc = "catch"
        /\ tempDirExists' = FALSE
        /\ response' = [response EXCEPT !.status = 500, !.success = FALSE,
                                        !.fields = FailureFields]
        /\ pc' = "done"
        /\ UNCHANGED <<uploadedImages, llmAttempts, llmCalls, llmLog, parsed, structure,
                       validation>>
        /\ UNCHANGED <<ocrVars, fnVars, conVars, dbVars, endpoint, pdfExists, applied>>

ReqNext ==
    \/ PrepareInput
    \/ LlmAttemptStart
    \/ LlmApiError
    \/ LlmEmptyResponse
    \/ LlmParseFailure
    \/ LlmParseSuccess
    \/ LlmRetryDelay
    \/ Stage1Merge
    \/ Stage2Validate
    \/ Stage3Inject
    \/ Stage4Base64
    \/ Stage5Link
    \/ Stage6Ids
    \/ Stage7Numbering
    \/ Stage8FinalValidation
    \/ RespondSuccess
    \/ RespondFailure

\* the OCR service instance the server creates; no extractText call modelled
\* step by step inside a request
ServerOcrConfig ==
    /\ primaryService = "doctr"
    /\ fallbackService = "tesseract"
    /\ maxRetries = CtorMaxRetries(2)
    /\ ocrPc = "idle"
    /\ attempts = 0
    /\ lastError = NoError
    /\ ocrResult = NoResult
    /\ ocrThrown = <<>>
    /\ trace = <<>>

\* no request running (the extractText call is looked at on its own)
\* ========================================================================
\* Two concurrent extraction requests and their temporary directories
\* ========================================================================
Reqs == {"A", "B"}

\* the tests (rows of table tests) and the students (rows of table users)
TestIds == {"t1", "t2"}
UserIds == {"u1", "u2"}

\* number of pages of the PDF each request uploads
PdfPages(r) == IF r = "A" THEN 1 ELSE 2

NoDir == [exists |-> FALSE, files |-> {}]

\* the page images page-<i>.png pdf.convert writes for the PDF of request r,
\* each a pair of the file's page index and the request whose page it shows
PageImages(r) == {<<i, r>> : i \in 1..PdfPages(r)}

ConIdle ==
    /\ clock = 0
    /\ cPc = [r \in Reqs |-> "off"]
    /\ cDir = [r \in Reqs |-> 0]
    /\ cFs = [d \in 0..MaxClock |-> NoDir]
    /\ cImageFiles = [r \in Reqs |-> {}]
    /\ cInput = [r \in Reqs |-> {}]
    /\ cOutcome = [r \in Reqs |-> "none"]

\* a test, a student and a request body that name nothing
NoTest == "no test"
NoUser == "no user"
NoDbRequest == [route |-> "none", test_id |-> NoTest, user_id |-> NoUser,
                approval_id |-> 0, action |-> "none"]

\* the tables as the server finds them empty, and no request under way
DbIdle ==
    /\ activeTests = [t \in TestIds |-> "no row"]
    /\ userAssignedTests = [u \in UserIds, t \in TestIds |-> 0]
    /\ examEntryApprovals = <<>>
    /\ dPc = [r \in Reqs |-> "idle"]
    /\ dArg = [r \in Reqs |-> NoDbRequest]
    /\ dLog = <<>>

ConFrame == UNCHANGED <<ocrVars, reqVars, fnVars, dbVars>>

\* a millisecond passes
Tick ==
    /\ clock < MaxClock
    /\ clock' = clock + 1
    /\ UNCHANGED <<cPc, cDir, cFs, cImageFiles, cInput, cOutcome>>
    /\ ConFrame

\* const tempDir = ...`pdf-${Date.now()}`; fs.mkdirSync(tempDir, { recursive: true })
ReqStart(r) ==
    LET
        \* path.join(__dirname, 'uploads', `pdf-${Date.now()}`): the directory is
        \* named by the millisecond alone
        TempDirName(now) == now
    IN
        /\ cPc[r] = "start"
        /\ cDir' = [cDir EXCEPT ![r] = TempDirName(clock)]
        /\ cFs' = [cFs EXCEPT ![TempDirName(clock)].exists = TRUE]
        /\ cPc' = [cPc EXCEPT ![r] = "convert"]
        /\ UNCHANGED <<clock, cImageFiles, cInput, cOutcome>>
        /\ ConFrame

\* await pdf.convert(pdfFile.path, options): fails when out_dir is gone
ReqConvert(r) ==
    LET
        \* pdf.convert(pdfFile.path, { out_dir, out_prefix: 'page' }): files of the
        \* same name are overwritten
        ConvertInto(files, q) ==
            {f \in files : f[1] \notin 1..PdfPages(q)} \cup PageImages(q)
    IN
        /\ cPc[r] = "convert"
        /\ IF cFs[cDir[r]].exists
             THEN /\ cFs' = [cFs EXCEPT ![cDir[r]].files = ConvertInto(@, r)]
                  /\ cPc' = [cPc EXCEPT ![r] = "readdir"]
             ELSE /\ cPc' = [cPc EXCEPT ![r] = "catch"]
                  /\ UNCHANGED cFs
        /\ UNCHANGED <<clock, cDir, cImageFiles, cInput, cOutcome>>
        /\ ConFrame

\* const imageFiles = fs.readdirSync(tempDir).filter(page-*.png)...
ReqReaddir(r) ==
    /\ cPc[r] = "readdir"
    /\ IF cFs[cDir[r]].exists
         THEN /\ cImageFiles' = [cImageFiles EXCEPT ![r] = {f[1] : f \in cFs[cDir[r]].files}]
              /\ cPc' = [cPc EXCEPT ![r] = "ocr"]
         ELSE /\ cPc' = [cPc EXCEPT ![r] = "catch"]
              /\ UNCHANGED cImageFiles
    /\ UNCHANGED <<clock, cDir, cFs, cInput, cOutcome>>
    /\ ConFrame

\* for (const imageFile of imageFiles) await ocrService.extractText(imageFile):
\* throws when a listed file is no longer there
ReqOcr(r) ==
    /\ cPc[r] = "ocr"
    /\ LET present == {f \in cFs[cDir[r]].files : f[1] \in cImageFiles[r]}
       IN  IF cFs[cDir[r]].exists /\ {f[1] : f \in present} = cImageFiles[r]
             THEN /\ cInput' = [cInput EXCEPT ![r] = present]
                  /\ cPc' = [cPc EXCEPT ![r] = "llm"]
             ELSE /\ cPc' = [cPc EXCEPT ![r] = "catch"]
                  /\ UNCHANGED cInput
    /\ UNCHANGED <<clock, cDir, cFs, cImageFiles, cOutcome>>
    /\ ConFrame

\* the LLM retry loop and the post-processing pipeline: they end with a
\* document or with an error
ReqProcess(r) ==
    /\ cPc[r] = "llm"
    /\ \E ok \in BOOLEAN : cPc' = [cPc EXCEPT ![r] = IF ok THEN "cleanup" ELSE "catch"]
    /\ UNCHANGED <<clock, cDir, cFs, cImageFiles, cInput, cOutcome>>
    /\ ConFrame

\* fs.rmSync(tempDir, { recursive: true, force: true }); ...; res.json(...)
ReqCleanup(r) ==
    /\ cPc[r] = "cleanup"
    /\ cFs' = [cFs EXCEPT ![cDir[r]] = NoDir]
    /\ cOutcome' = [cOutcome EXCEPT ![r] = "success"]
    /\ cPc' = [cPc EXCEPT ![r] = "done"]
    /\ UNCHANGED <<clock, cDir, cImageFiles, cInput>>
    /\ ConFrame

\* catch (error): if (fs.existsSync(tempDir)) fs.rmSync(tempDir, ...);
\* res.status(500).json(...)
ReqCatch(r) ==
    /\ cPc[r] = "catch"
    /\ cFs' = [cFs EXCEPT ![cDir[r]] = NoDir]
    /\ cOutcome' = [cOutcome EXCEPT ![r] = "failure"]
    /\ cPc' = [cPc EXCEPT ![r] = "done"]
    /\ UNCHANGED <<clock, cDir, cImageFiles, cInput>>
    /\ ConFrame

ConNext ==
    \/ Tick
    \/ \E r \in Reqs : ReqStart(r)
    \/ \E r \in Reqs : ReqConvert(r)
    \/ \E r \in Reqs : ReqReaddir(r)
    \/ \E r \in Reqs : ReqOcr(r)
    \/ \E r \in Reqs : ReqProcess(r)
    \/ \E r \in Reqs : ReqCleanup(r)
    \/ \E r \in Reqs : ReqCatch(r)

\* no helper function called on its own
FnIdle ==
    /\ fnName = ""
    /\ fnArg = ""
    /\ fnPc = "idle"
    /\ fnResult = ""

ReqIdle ==
    /\ endpoint = "listening"
    /\ pc = "idle"
    /\ tempDirExists = FALSE
    /\ pdfExists = FALSE
    /\ applied = <<>>
    /\ uploadedImages = <<>>
    /\ llmAttempts = 0
    /\ llmCalls = 0
    /\ llmLog = <<>>
    /\ parsed = NoStructure
    /\ structure = NoStructure
    /\ validation = NoValidation
    /\ response = NoResponse

Init ==
    LET
        ReqInit ==
            /\ endpoint \in Endpoints
            /\ pc = "start"
            /\ tempDirExists = FALSE
            /\ pdfExists = TRUE
            /\ applied = <<>>
            /\ uploadedImages = <<>>
            /\ llmAttempts = 0
            /\ llmCalls = 0
            /\ llmLog = <<>>
            /\ parsed = NoStructure
            /\ structure = NoStructure
            /\ validation = NoValidation
            /\ response = NoResponse
    IN
            ServerOcrConfig /\ ReqInit /\ FnIdle /\ ConIdle /\ DbIdle

Next == ReqNext

\* a whole extraction request
Spec == Init /\ [][Next]_vars

\* a request is never stuck at an await: timers fire, calls return or fail

\* the post-processing pipeline on its own: the request right after the
\* first completion was parsed, for every structure of the model
PipelineInit ==
    LET
        \* part numbers the LLM emits (Absent: the part has no part field)
        PartNums == {Absent, 1, 2, 3}
    IN
        /\ ServerOcrConfig
        /\ FnIdle
        /\ ConIdle /\ DbIdle
        /\ endpoint = "listening"
        /\ pc = "stage1"
        /\ tempDirExists = TRUE
        /\ pdfExists = TRUE
        /\ applied = <<>>
        /\ uploadedImages \in UploadedImageLists
        /\ llmAttempts = 1
        /\ llmCalls = 1
        /\ llmLog = <<"parsed">>
        /\ IsLLMStructure(parsed, MaxParts, PartNums)
        /\ structure = parsed
        /\ validation = NoValidation
        /\ response = NoResponse

PipelineNext ==
    \/ Stage1Merge
    \/ Stage2Validate
    \/ Stage3Inject
    \/ Stage4Base64
    \/ Stage5Link
    \/ Stage6Ids
    \/ Stage7Numbering
    \/ Stage8FinalValidation
    \/ RespondSuccess

SpecPipeline == PipelineInit /\ [][PipelineNext]_vars

\* ========================================================================
\* Helper functions called on their own
\* ========================================================================
\* sequences over S of length at most n
RECURSIVE SeqsUpTo(_, _)
SeqsUpTo(S, n) ==
    IF n = 0 THEN {<<>>}
    ELSE LET shorter == SeqsUpTo(S, n - 1)
         IN  shorter \cup {Append(s, x) : s \in shorter, x \in S}

\* a question with every required field set
QFull == [QA EXCEPT !.type = "form-fill", !.inputType = "text",
                    !.answerConstraints = "ONE WORD AND/OR A NUMBER"]

FnFrame == UNCHANGED <<ocrVars, reqVars, conVars, dbVars, fnName, fnArg>>

\* validateRequiredFields(structure) called with a document
ValidateCallInit ==
    LET
        ValidatorDocuments ==
            LET
                \* arguments of validateRequiredFields: documents with any of the required
                \* fields missing, the parts array and the questions arrays included
                ValidatorParts ==
                    {[part |-> pn, instructions |-> ins, questionsRange |-> qr,
                      hasQuestions |-> qs.present, questions |-> qs.items] :
                        pn \in {Absent, 1}, ins \in {<<>>, LLMInstructions},
                        qr \in {<<>>, LLMQuestionsRange},
                        qs \in {[present |-> FALSE, items |-> <<>>]}
                               \cup {[present |-> TRUE, items |-> s] :
                                        s \in {<<>>, <<EmptyQuestion>>, <<QFull>>, <<QB, QA>>}}}
            IN
                {[defined |-> TRUE, test |-> t, section |-> sec,
                  hasParts |-> ps.present, parts |-> ps.items] :
                    t \in {"", LLMTest}, sec \in {"", LLMSection},
                    ps \in {[present |-> FALSE, items |-> <<>>]}
                           \cup {[present |-> TRUE, items |-> s] :
                                    s \in SeqsUpTo(ValidatorParts, MaxFnParts)}}
    IN
        /\ ServerOcrConfig
        /\ ReqIdle
        /\ ConIdle /\ DbIdle
        /\ fnName = "validateRequiredFields"
        /\ fnArg \in ValidatorDocuments
        /\ fnPc = "call"
        /\ fnResult = NoValidation

CallValidateRequiredFields ==
    /\ fnPc = "call"
    /\ fnName = "validateRequiredFields"
    /\ LET result == validateRequiredFields(fnArg)
       IN  IF result.thrown
             THEN fnPc' = "raised" /\ UNCHANGED fnResult
             ELSE fnPc' = "returned" /\ fnResult' = result
    /\ FnFrame

SpecValidateRequiredFields == ValidateCallInit /\ [][CallValidateRequiredFields]_vars

QMatching == [QFull EXCEPT !.text = "the library", !.type = "matching",
                           !.inputType = "drag"]
\* linkMatchingQuestions(structure) called with a document
LinkCallInit ==
    LET
        LinkDocuments ==
            LET
                LinkPool ==
                    LET
                        QMatchingOwn == [QMatching EXCEPT !.text = "the cafe",
                                                          !.draggableVariants = [present |-> TRUE, items |-> <<"Z">>]]
                    IN
                        LET
                            DividerPlain == [QB EXCEPT !.text = "section heading", !.draggableVariants = NoDV]
                        IN
                            LET
                                \* arguments of linkMatchingQuestions: a part made of dividers with a list
                                \* of drag labels, with an empty list and with none, of matching questions
                                \* with and without a list of their own and of a question of another type,
                                \* alone or followed by one more part
                                DividerEmpty == [QB EXCEPT !.text = "questions 6-10",
                                                          !.draggableVariants = [present |-> TRUE, items |-> <<>>]]
                            IN
                                        {QB, DividerEmpty, DividerPlain, QMatching, QMatchingOwn, QFull}
            IN
                {LLMDocument(<<MkPart(1, qs)>> \o rest) :
                    qs \in SeqsUpTo(LinkPool, MaxLinkQuestions),
                    rest \in {<<>>, <<MkPart(2, <<QMatching>>)>>, <<MkPart(2, <<QB, QMatching>>)>>}}
    IN
        /\ ServerOcrConfig
        /\ ReqIdle
        /\ ConIdle /\ DbIdle
        /\ fnName = "linkMatchingQuestions"
        /\ fnArg \in LinkDocuments
        /\ fnPc = "call"
        /\ fnResult = NoStructure

CallLinkMatchingQuestions ==
    /\ fnPc = "call"
    /\ fnName = "linkMatchingQuestions"
    /\ fnResult' = linkMatchingQuestions(fnArg)
    /\ fnPc' = "returned"
    /\ FnFrame

SpecLinkMatchingQuestions == LinkCallInit /\ [][CallLinkMatchingQuestions]_vars

MapScenarioInit ==
    LET
        MapScenarioDocuments ==
            LET
                WithInstructions(q, ins) == [q EXCEPT !.instructions = ins]
            IN
                LET
                    \* the scenario of two gap-fill questions under instructions that mention a
                    \* map: the questions have no type; the instructions are on the part and,
                    \* in some documents, on the questions too; other entries may precede or
                    \* follow
                    QA2 == [QA EXCEPT !.number = 8,
                                      !.questionId = <<"listening", EnDash, "1", EnDash, "1", EnDash, "8">>]
                IN
                    {LLMDocument(<<MkPart(pn, pre \o <<WithInstructions(QA, ins),
                                                       WithInstructions(QA2, ins)>> \o post)>>) :
                        pn \in {1, 2}, pre \in {<<>>, <<QB>>}, post \in {<<>>, <<QC>>},
                        ins \in {"", "label the map below"}}
    IN
        /\ ServerOcrConfig
        /\ FnIdle
        /\ ConIdle /\ DbIdle
        /\ endpoint \in Endpoints
        /\ pc = "stage1"
        /\ tempDirExists = TRUE
        /\ pdfExists = TRUE
        /\ applied = <<>>
        /\ uploadedImages \in UploadedImageLists
        /\ llmAttempts = 1
        /\ llmCalls = 1
        /\ llmLog = <<"parsed">>
        /\ parsed \in MapScenarioDocuments
        /\ structure = parsed
        /\ validation = NoValidation
        /\ response = NoResponse

SpecMapScenario == MapScenarioInit /\ [][PipelineNext]_vars

\* two requests arriving at any time, in any interleaving of their steps
ConcurrentInit ==
    LET
        ConInit ==
            /\ clock = 0
            /\ cPc = [r \in Reqs |-> "start"]
            /\ cDir = [r \in Reqs |-> 0]
            /\ cFs = [d \in 0..MaxClock |-> NoDir]
            /\ cImageFiles = [r \in Reqs |-> {}]
            /\ cInput = [r \in Reqs |-> {}]
            /\ cOutcome = [r \in Reqs |-> "none"]
    IN
                      ServerOcrConfig /\ ReqIdle /\ FnIdle /\ ConInit /\ DbIdle

SpecConcurrent == ConcurrentInit /\ [][ConNext]_vars

\* ========================================================================
\* OCRService.cleanOCRText
\* ========================================================================
cleanOCRText(text) ==
    LET
        Blanks == {" "}
        \* character classes, as the pieces that are, end with or start with one
        Digits == {"1"}
        StartsWithUpperCase == {"Page"}
        \* first position from i on whose piece is not in the class P
        RECURSIVE SkipWhile(_, _, _)
        SkipWhile(s, i, P) ==
            IF i <= Len(s) /\ s[i] \in P THEN SkipWhile(s, i + 1, P) ELSE i
        From(s, i) == SubSeq(s, i, Len(s))
        \* .trim()
        RECURSIVE TrimEnd(_)
        TrimEnd(s) == IF s # <<>> /\ s[Len(s)] \in Blanks THEN TrimEnd(SubSeq(s, 1, Len(s) - 1)) ELSE s
        \* .replace(/Page\s*\d+/gi, '')
        RECURSIVE RemovePageHeaders(_)
        RemovePageHeaders(s) ==
            IF s = <<>> THEN <<>>
            ELSE LET d == SkipWhile(s, 2, Blanks)
                     e == SkipWhile(s, d, Digits)
                 IN  IF s[1] = "Page" /\ e > d
                       THEN RemovePageHeaders(From(s, e))
                       ELSE <<s[1]>> \o RemovePageHeaders(Tail(s))
        \* .replace(/(\d+)\s*\.\s*/g, '$1. ')
        RECURSIVE FixDigitNumbering(_)
        FixDigitNumbering(s) ==
            IF s = <<>> THEN <<>>
            ELSE LET d == SkipWhile(s, 1, Digits)
                     b == SkipWhile(s, d, Blanks)
                 IN  IF d > 1 /\ b <= Len(s) /\ s[b] = "."
                       THEN SubSeq(s, 1, d - 1) \o <<".", " ">>
                            \o FixDigitNumbering(From(s, SkipWhile(s, b + 1, Blanks)))
                       ELSE <<s[1]>> \o FixDigitNumbering(Tail(s))
        \* .replace(/([lI])\s*\.\s*/g, '1. ')
        RECURSIVE FixLetterNumbering(_)
        FixLetterNumbering(s) ==
            IF s = <<>> THEN <<>>
            ELSE LET b == SkipWhile(s, 2, Blanks)
                 IN  IF s[1] = "l" /\ b <= Len(s) /\ s[b] = "."
                       THEN <<"1", ".", " ">>
                            \o FixLetterNumbering(From(s, SkipWhile(s, b + 1, Blanks)))
                       ELSE <<s[1]>> \o FixLetterNumbering(Tail(s))
        \* .replace(/\s+/g, ' ')
        RECURSIVE CollapseSpaces(_)
        CollapseSpaces(s) ==
            IF s = <<>> THEN <<>>
            ELSE IF s[1] \in Blanks
              THEN <<" ">> \o CollapseSpaces(From(s, SkipWhile(s, 1, Blanks)))
              ELSE <<s[1]>> \o CollapseSpaces(Tail(s))
        \* .replace(/(X)(Y)/g, '$1 $2') for one-character classes X and Y: a blank
        \* goes between every piece that ends in X and a next piece that starts in Y
        RECURSIVE SpaceBetween(_, _, _)
        SpaceBetween(s, X, Y) ==
            IF Len(s) < 2 THEN s
            ELSE IF s[1] \in X /\ s[2] \in Y
              THEN <<s[1], " ">> \o SpaceBetween(Tail(s), X, Y)
              ELSE <<s[1]>> \o SpaceBetween(Tail(s), X, Y)
        \* .replace(/([.?!])\s*([A-Z])/g, '$1 $2')
        RECURSIVE FixSentenceSpacing(_)
        FixSentenceSpacing(s) ==
            IF s = <<>> THEN <<>>
            ELSE LET b == SkipWhile(s, 2, Blanks)
                 IN  IF s[1] = "." /\ b <= Len(s) /\ s[b] \in StartsWithUpperCase
                       THEN <<".", " ">> \o FixSentenceSpacing(From(s, b))
                       ELSE <<s[1]>> \o FixSentenceSpacing(Tail(s))
        Trim(s) == TrimEnd(From(s, SkipWhile(s, 1, Blanks)))
    IN
        LET
            \* .replace(/\|/g, '')
            RemovePipes(s) == SelectSeq(s, LAMBDA t : t # "|")
        IN
            LET
                EndsWithLetter == {"Page", "l"}
            IN
                LET
                    EndsWithLowerCase == {"Page", "l"}
                IN
                    LET t1 == RemovePageHeaders(text)
                        t2 == RemovePipes(t1)
                        t3 == FixDigitNumbering(t2)
                        t4 == FixLetterNumbering(t3)
                        t5 == CollapseSpaces(t4)
                        t6 == SpaceBetween(t5, EndsWithLowerCase, StartsWithUpperCase)
                        t7 == SpaceBetween(t6, Digits, StartsWithUpperCase)
                        t8 == SpaceBetween(t7, EndsWithLetter, Digits)
                        t9 == FixSentenceSpacing(t8)
                    IN  Trim(CollapseSpaces(t9))

\* cleanOCRText(text) called with a text, and then with its own result
CleanCallInit ==
    LET
        \* A text is a sequence of pieces: the header word "Page", the digit "1",
        \* a blank, the pipe, the letter "l" and the full stop. The replacements
        \* below are the steps of the chain that can match in such a text; the
        \* others (IELTS, Cambridge IELTS, Test, underscores, long dashes, O.,
        \* hyphens, line breaks) need a character no piece has.
        TextPieces == {"Page", "1", " ", "|", "l", "."}
    IN
        /\ ServerOcrConfig
        /\ ReqIdle
        /\ ConIdle /\ DbIdle
        /\ fnName = "cleanOCRText"
        /\ fnArg \in SeqsUpTo(TextPieces, MaxTextLen)
        /\ fnPc = "call"
        /\ fnResult = <<>>

CallCleanOCRText ==
    /\ fnPc = "call"
    /\ fnName = "cleanOCRText"
    /\ fnResult' = cleanOCRText(fnArg)
    /\ fnPc' = "returned"
    /\ FnFrame

CallCleanOCRTextAgain ==
    /\ fnPc = "returned"
    /\ fnName = "cleanOCRText"
    /\ fnArg' = fnResult
    /\ fnResult' = cleanOCRText(fnResult)
    /\ fnPc' = "returnedAgain"
    /\ UNCHANGED <<ocrVars, reqVars, conVars, dbVars, fnName>>

SpecCleanOCRText ==
    CleanCallInit /\ [][CallCleanOCRText \/ CallCleanOCRTextAgain]_vars

\* ========================================================================
\* OCRService.parseJsonSafely
\* ========================================================================
\* the pc after a stage of the chain: a stage that parses returns, a stage
\* that fails is caught and the next stage follows
AfterParseStage_MutCleanFailureAborts(stage, ok) ==
    IF ok THEN "returned"
    ELSE CASE stage = "direct" -> "cleaned"
           [] stage = "cleaned" -> "raised"
           [] stage = "repair" -> "extract"
           [] stage = "extract" -> "fail"
AfterParseStage(stage, ok) ==
    IF ok THEN "returned"
    ELSE CASE stage = "direct" -> "cleaned"
           [] stage = "cleaned" -> "repair"
           [] stage = "repair" -> "extract"
           [] stage = "extract" -> "fail"

ParseCallInit ==
    LET
        NoParseResult == [value |-> "", tried |-> <<>>]
    IN
        LET
            \* A raw response is described by what the library calls make of it: it is
            \* empty or not, JSON.parse accepts it as it is or not, accepts the text
            \* cleanJsonString makes of it or not, jsonrepair can repair it or not, it
            \* has a {...} span or not and JSON.parse accepts the cleaned span or not.
            \* The argument also says whether require('jsonrepair') found the package
            \* when the module was loaded.
            RawResponses ==
                {r \in [empty : BOOLEAN, direct : BOOLEAN, cleaned : BOOLEAN, repair : BOOLEAN,
                        hasSpan : BOOLEAN, extract : BOOLEAN] :
                    /\ r.empty => ~(r.direct \/ r.cleaned \/ r.repair \/ r.hasSpan)
                    /\ r.extract => r.hasSpan}
        IN
            /\ ServerOcrConfig
            /\ ReqIdle
            /\ ConIdle /\ DbIdle
            /\ fnName = "parseJsonSafely"
            /\ fnArg \in [raw : RawResponses, jsonrepair : BOOLEAN]
            /\ fnPc = "call"
            /\ fnResult = NoParseResult

\* the stage is run: it is recorded, and its result is returned when it parses
RunParseStage(stage, ok) ==
    /\ fnResult' = [value |-> IF ok THEN stage ELSE "",
                    tried |-> Append(fnResult.tried, stage)]
    /\ fnPc' = AfterParseStage(stage, ok)
    /\ FnFrame

\* if (!rawJsonString) throw new Error(`Empty ${context} response received`)
ParseEntry ==
    /\ fnName = "parseJsonSafely"
    /\ fnPc = "call"
    /\ fnPc' = IF fnArg.raw.empty THEN "raised" ELSE "direct"
    /\ UNCHANGED fnResult
    /\ FnFrame

\* try { return JSON.parse(rawJsonString) } catch (initialError) { }
ParseDirect ==
    /\ fnName = "parseJsonSafely"
    /\ fnPc = "direct"
    /\ RunParseStage("direct", fnArg.raw.direct)

\* try { return JSON.parse(OCRService.cleanJsonString(rawJsonString)) } catch { }
ParseCleaned ==
    /\ fnName = "parseJsonSafely"
    /\ fnPc = "cleaned"
    /\ RunParseStage("cleaned", fnArg.raw.cleaned)

\* if (jsonrepair) { try { return JSON.parse(jsonrepair(rawJsonString)) } catch { } }
ParseRepair ==
    /\ fnName = "parseJsonSafely"
    /\ fnPc = "repair"
    /\ IF fnArg.jsonrepair
         THEN RunParseStage("repair", fnArg.raw.repair)
         ELSE fnPc' = "extract" /\ UNCHANGED fnResult /\ FnFrame

\* const jsonMatch = rawJsonString.match(/\{.*\}/s);
\* if (jsonMatch) { try { return JSON.parse(cleanJsonString(jsonMatch[0])) } catch { } }
ParseExtract ==
    /\ fnName = "parseJsonSafely"
    /\ fnPc = "extract"
    /\ IF fnArg.raw.hasSpan
         THEN RunParseStage("extract", fnArg.raw.extract)
         ELSE fnPc' = "fail" /\ UNCHANGED fnResult /\ FnFrame

\* throw new Error(`Failed to parse ${context} JSON after all repair attempts. ...`)
ParseFail ==
    /\ fnName = "parseJsonSafely"
    /\ fnPc = "fail"
    /\ fnPc' = "raised"
    /\ UNCHANGED fnResult
    /\ FnFrame

ParseNext ==
    \/ ParseEntry
    \/ ParseDirect
    \/ ParseCleaned
    \/ ParseRepair
    \/ ParseExtract
    \/ ParseFail

SpecParseJsonSafely == ParseCallInit /\ [][ParseNext]_vars

\* ========================================================================
\* Stages 1 to 7 called on their own with a malformed document
\* ========================================================================
\* The argument is a document of the model (its parts field and the
\* questions field of a part may be missing) together with one more defect
\* that the records of the model cannot hold:
\*   "parts not a sequence"     parts is a truthy value that is no array
\*   "null part"                the parts array holds a null
\*   "null question"            a questions array holds a null
\*   "questionId not a string"  a question has a number as its questionId
\* StageRaises: the stage reads a property of undefined or null, or calls a
\* method the value does not have (TypeError); nothing in a stage catches it.
StageRaises(stage, arg) ==
    LET doc == arg.structure
        notSeq == arg.malformed = "parts not a sequence"
        noParts == ~doc.hasParts \/ notSeq
        noQuestions == \E p \in 1..Len(doc.parts) : ~doc.parts[p].hasQuestions
        nullPart == arg.malformed = "null part"
        nullQuestion == arg.malformed = "null question"
        idNotString == arg.malformed = "questionId not a string"
    IN  CASE stage = "mergeDuplicateParts" ->
               \* parts.forEach(part => partMap.has(part.part) ...)
               noParts \/ nullPart
          [] stage = "validateAndFixStructure" ->
               \* parts and questions are defaulted to []; !part.part, !question.questionId
               nullPart \/ nullQuestion
          [] stage = "injectImageObjects" ->
               \* modifiedStructure.parts.forEach; part.questions || []; question.type
               Len(arg.uploadedImages) > 0 /\ (noParts \/ nullPart \/ nullQuestion)
          [] stage = "processBase64Images" ->
               \* for (const part of modifiedStructure.parts) for (const question of part.questions)
               noParts \/ noQuestions \/ nullPart \/ nullQuestion
          [] stage = "linkMatchingQuestions" ->
               \* modifiedStructure.parts.forEach; part.questions || []; q.type
               noParts \/ nullPart \/ nullQuestion
          [] stage = "standardizeQuestionIds" ->
               \* parts.forEach; part.questions.forEach; question.questionId.replace(...)
               noParts \/ noQuestions \/ nullPart \/ nullQuestion \/ idNotString
          [] stage = "enforceQuestionNumbering" ->
               \* structure.parts.forEach; part.questions.forEach; question.type
               noParts \/ noQuestions \/ nullPart \/ nullQuestion

StageCallInit ==
    /\ ServerOcrConfig
    /\ ReqIdle
    /\ ConIdle /\ DbIdle
    /\ fnName \in {"mergeDuplicateParts", "validateAndFixStructure", "injectImageObjects",
                   "processBase64Images", "linkMatchingQuestions",
                   "standardizeQuestionIds", "enforceQuestionNumbering"}
    /\ \E doc \in [defined : {TRUE}, test : {LLMTest}, section : {LLMSection},
                    hasParts : BOOLEAN,
                    parts : SeqsUpTo({MkPart(pn, qs) : pn \in {Absent, 1},
                                                      qs \in {<<>>, <<QA>>, <<QB, QC, QC>>,
                                                              <<QImage, QC>>}},
                                     MaxFnParts)] :
          \E m \in {"none", "parts not a sequence", "null part", "null question",
                    "questionId not a string"} :
             \E imgs \in UploadedImageLists :
                /\ ~doc.hasParts => doc.parts = <<>>
                /\ m = "parts not a sequence" => doc.parts = <<>> /\ doc.hasParts
                /\ m = "null part" => doc.hasParts
                /\ m \in {"null question", "questionId not a string"} =>
                      \E p \in 1..Len(doc.parts) : doc.parts[p].hasQuestions
                /\ fnArg = [structure |-> doc, malformed |-> m, uploadedImages |-> imgs]
    /\ fnPc = "call"
    /\ fnResult = NoStructure

\* the stage is called; when it returns, fnResult is what it made of the
\* document (a defect of the second kind that the stage did not touch stays)
CallStage ==
    /\ fnPc = "call"
    /\ fnName \in {"mergeDuplicateParts", "validateAndFixStructure", "injectImageObjects",
                   "processBase64Images", "linkMatchingQuestions",
                   "standardizeQuestionIds", "enforceQuestionNumbering"}
    /\ IF StageRaises(fnName, fnArg)
         THEN fnPc' = "raised" /\ UNCHANGED fnResult
         ELSE /\ fnPc' = "returned"
              /\ LET doc == fnArg.structure
                 IN  CASE fnName = "mergeDuplicateParts" ->
                            fnResult' = [doc EXCEPT !.parts = mergeDuplicateParts(doc.parts)]
                       [] fnName = "validateAndFixStructure" ->
                            fnResult' = validateAndFixStructure(doc)
                       [] fnName = "injectImageObjects" ->
                            fnResult' = injectImageObjects(doc, fnArg.uploadedImages)
                       [] fnName = "processBase64Images" ->
                            \E writeOk \in BOOLEAN :
                                fnResult' = processBase64Images(doc, writeOk)
                       [] fnName = "linkMatchingQuestions" ->
                            fnResult' = linkMatchingQuestions(doc)
                       [] fnName = "standardizeQuestionIds" ->
                            fnResult' = standardizeQuestionIds(doc)
                       [] fnName = "enforceQuestionNumbering" ->
                            fnResult' = enforceQuestionNumbering(doc)
    /\ FnFrame

SpecStages == StageCallInit /\ [][CallStage]_vars

\* enforceQuestionNumbering(structure) called with documents of two parts
\* that hold up to MaxEntries questions each, after a divider or not
NumberingCallInit ==
    /\ ServerOcrConfig
    /\ ReqIdle
    /\ ConIdle /\ DbIdle
    /\ fnName = "enforceQuestionNumbering"
    /\ \E n \in [1..2 -> 0..MaxEntries] : \E divider \in [1..2 -> BOOLEAN] :
          fnArg = [structure |->
                      LLMDocument([p \in 1..2 |->
                          MkPart(p, (IF divider[p] THEN <<QB>> ELSE <<>>)
                                      \o [i \in 1..n[p] |-> QA])]),
                   malformed |-> "none",
                   uploadedImages |-> <<>>]
    /\ fnPc = "call"
    /\ fnResult = NoStructure

SpecNumbering == NumberingCallInit /\ [][CallStage]_vars

\* ========================================================================
\* The routes that write the Supabase tables.  A request handler awaits
\* each database call, so other handlers run between two calls of one
\* handler; each call is one statement, which the database runs atomically.
\* A failure of the database service itself is not modelled: a call
\* returns an error only when the statement violates a constraint.
\* ========================================================================

\* the server with empty tables, before the first request
DbInit == ServerOcrConfig /\ ReqIdle /\ FnIdle /\ ConIdle /\ DbIdle

DbFrame == UNCHANGED <<ocrVars, reqVars, fnVars, conVars>>

\* app.post(route, async (req, res) => { const {...} = req.body : handler r
\* starts on a request, up to its first database call
DbStart(r, req, firstCall) ==
    /\ dPc[r] = "idle"
    /\ Cardinality({i \in DOMAIN dLog : dLog[i].status = 0}) < MaxRequests
    /\ dArg' = [dArg EXCEPT ![r] = req]
    /\ dPc' = [dPc EXCEPT ![r] = firstCall]
    /\ dLog' = Append(dLog, [req |-> req, status |-> 0])
    /\ UNCHANGED <<activeTests, userAssignedTests, examEntryApprovals>>
    /\ DbFrame

\* res.json(...) / res.status(code).json(...) : handler r answers and ends
Respond(r, code) ==
    /\ dLog' = Append(dLog, [req |-> dArg[r], status |-> code])
    /\ dPc' = [dPc EXCEPT ![r] = "idle"]
    /\ dArg' = [dArg EXCEPT ![r] = NoDbRequest]
    /\ DbFrame

\* POST /api/admin/set-global-active-test
SetGlobalActiveTest(r) ==
    \/ \E t \in TestIds :
          DbStart(r, [NoDbRequest EXCEPT !.route = "set-global-active-test",
                                         !.test_id = t], "deactivate others")
    \* 1. update({ is_active: false }).neq('test_id', test_id)
    \/ /\ dArg[r].route = "set-global-active-test"
       /\ dPc[r] = "deactivate others"
       /\ activeTests' = [t \in TestIds |->
                            IF t # dArg[r].test_id /\ activeTests[t] # "no row"
                            THEN "inactive" ELSE activeTests[t]]
       /\ dPc' = [dPc EXCEPT ![r] = "upsert"]
       /\ UNCHANGED <<userAssignedTests, examEntryApprovals, dArg, dLog>>
       /\ DbFrame
    \* 2. upsert({ test_id, is_active: true }, { onConflict: ['test_id'] })
    \/ /\ dArg[r].route = "set-global-active-test"
       /\ dPc[r] = "upsert"
       /\ activeTests' = [activeTests EXCEPT ![dArg[r].test_id] = "active"]
       /\ UNCHANGED <<userAssignedTests, examEntryApprovals>>
       /\ Respond(r, 200)

\* POST /api/tests/active
PostTestsActive(r) ==
    \/ \E t \in TestIds :
          DbStart(r, [NoDbRequest EXCEPT !.route = "tests/active",
                                         !.test_id = t], "deactivate active")
    \* update({ is_active: false }).eq('is_active', true)
    \/ /\ dArg[r].route = "tests/active"
       /\ dPc[r] = "deactivate active"
       /\ activeTests' = [t \in TestIds |->
                            IF activeTests[t] = "active" THEN "inactive"
                            ELSE activeTests[t]]
       /\ dPc' = [dPc EXCEPT ![r] = "insert"]
       /\ UNCHANGED <<userAssignedTests, examEntryApprovals, dArg, dLog>>
       /\ DbFrame
    \* insert([{ test_id, created_by, is_active: true }]) : test_id is the
    \* conflict target of the upsert above, so a second row of one test is
    \* refused; if (error) throw error -> 500
    \/ /\ dArg[r].route = "tests/active"
       /\ dPc[r] = "insert"
       /\ IF activeTests[dArg[r].test_id] = "no row"
          THEN /\ activeTests' = [activeTests EXCEPT ![dArg[r].test_id] = "active"]
               /\ Respond(r, 200)
          ELSE /\ UNCHANGED activeTests
               /\ Respond(r, 500)
       /\ UNCHANGED <<userAssignedTests, examEntryApprovals>>

ActiveTestsNext ==
    \/ \E r \in Reqs : SetGlobalActiveTest(r)
    \/ \E r \in Reqs : PostTestsActive(r)

SpecActiveTests == DbInit /\ [][ActiveTestsNext]_vars

\* POST /api/admin/assign-test-to-user
AssignTestToUser(r) ==
    \/ \E u \in UserIds, t \in TestIds :
          DbStart(r, [NoDbRequest EXCEPT !.route = "assign-test-to-user",
                                         !.user_id = u, !.test_id = t], "delete")
    \* delete().eq('user_id', user_id)
    \/ /\ dArg[r].route = "assign-test-to-user"
       /\ dPc[r] = "delete"
       /\ userAssignedTests' = [u \in UserIds, t \in TestIds |->
                                  IF u = dArg[r].user_id THEN 0
                                  ELSE userAssignedTests[u, t]]
       /\ dPc' = [dPc EXCEPT ![r] = "insert"]
       /\ UNCHANGED <<activeTests, examEntryApprovals, dArg, dLog>>
       /\ DbFrame
    \* insert({ user_id, test_id, assigned_by: admin_id })
    \/ /\ dArg[r].route = "assign-test-to-user"
       /\ dPc[r] = "insert"
       /\ userAssignedTests' =
              [userAssignedTests EXCEPT ![dArg[r].user_id, dArg[r].test_id] = @ + 1]
       /\ UNCHANGED <<activeTests, examEntryApprovals>>
       /\ Respond(r, 200)

\* POST /api/user-assigned-tests
PostUserAssignedTests(r) ==
    \/ \E u \in UserIds, t \in TestIds :
          DbStart(r, [NoDbRequest EXCEPT !.route = "user-assigned-tests",
                                         !.user_id = u, !.test_id = t], "insert")
    \* insert([{ user_id, test_id, assigned_by }])
    \/ /\ dArg[r].route = "user-assigned-tests"
       /\ dPc[r] = "insert"
       /\ userAssignedTests' =
              [userAssignedTests EXCEPT ![dArg[r].user_id, dArg[r].test_id] = @ + 1]
       /\ UNCHANGED <<activeTests, examEntryApprovals>>
       /\ Respond(r, 200)

AssignedTestsNext ==
    \/ \E r \in Reqs : AssignTestToUser(r)
    \/ \E r \in Reqs : PostUserAssignedTests(r)

SpecAssignedTests == DbInit /\ [][AssignedTestsNext]_vars

\* a row of exam_entry_approvals; its id is its place in the table, and a
\* deleted row keeps its place (ids are not given out again)
ApprovalRow(u, s) == [user_id |-> u, status |-> s, present |-> TRUE]

\* .eq('id', approval_id).eq('status', 'pending') : the rows the update of
\* approve-entry applies to
ApproveMatches_MutAnyStatus(id) ==
    /\ id \in DOMAIN examEntryApprovals
    /\ examEntryApprovals[id].present

ApproveMatches(id) ==
    /\ id \in DOMAIN examEntryApprovals
    /\ examEntryApprovals[id].present
    /\ examEntryApprovals[id].status = "pending"

\* POST /api/users/approve-entry
ApproveEntry(r) ==
    \* approval_id names a row of the table or the row after the last
    \/ \E id \in 1..(Len(examEntryApprovals) + 1),
          action \in {"approve", "reject", "cancel"} :
          DbStart(r, [NoDbRequest EXCEPT !.route = "approve-entry",
                                         !.approval_id = id, !.action = action],
                  IF action \in {"approve", "reject"} THEN "update" ELSE "invalid")
    \* if (!['approve', 'reject'].includes(action)) return res.status(400)
    \/ /\ dArg[r].route = "approve-entry"
       /\ dPc[r] = "invalid"
       /\ UNCHANGED <<activeTests, userAssignedTests, examEntryApprovals>>
       /\ Respond(r, 400)
    \* update({ status, approved_by, approved_at }).eq('id', approval_id)
    \*   .eq('status', 'pending').select() ; data.length === 0 -> 404
    \/ /\ dArg[r].route = "approve-entry"
       /\ dPc[r] = "update"
       /\ IF ApproveMatches(dArg[r].approval_id)
          THEN /\ examEntryApprovals' =
                      [examEntryApprovals EXCEPT ![dArg[r].approval_id].status =
                          IF dArg[r].action = "approve" THEN "approved" ELSE "rejected"]
               /\ Respond(r, 200)
          ELSE /\ UNCHANGED examEntryApprovals
               /\ Respond(r, 404)
       /\ UNCHANGED <<activeTests, userAssignedTests>>

\* POST /api/users/send-approval
SendApproval(r) ==
    LET
        \* the rows .select("*").eq("user_id", studentId) finds
        RowsOf(u) == {id \in DOMAIN examEntryApprovals :
                         /\ examEntryApprovals[id].present
                         /\ examEntryApprovals[id].user_id = u}
    IN
        \/ \E u \in UserIds \cup {NoUser} :
              DbStart(r, [NoDbRequest EXCEPT !.route = "send-approval", !.user_id = u],
                      "select user")
        \* from("users").select("*").eq("id", studentId).single()
        \/ /\ dArg[r].route = "send-approval"
           /\ dPc[r] = "select user"
           /\ UNCHANGED <<activeTests, userAssignedTests, examEntryApprovals>>
           /\ IF dArg[r].user_id \in UserIds
              THEN /\ dPc' = [dPc EXCEPT ![r] = "select approval"]
                   /\ UNCHANGED <<dArg, dLog>>
                   /\ DbFrame
              ELSE Respond(r, 404)
        \* from("exam_entry_approvals").select("*").eq("user_id", studentId)
        \*   .single() : no row, or several (error PGRST116), leaves
        \* existingApproval null
        \/ /\ dArg[r].route = "send-approval"
           /\ dPc[r] = "select approval"
           /\ UNCHANGED <<activeTests, userAssignedTests, examEntryApprovals>>
           /\ IF Cardinality(RowsOf(dArg[r].user_id)) = 1
              THEN Respond(r, 200)
              ELSE /\ dPc' = [dPc EXCEPT ![r] = "insert"]
                   /\ UNCHANGED <<dArg, dLog>>
                   /\ DbFrame
        \* insert({ user_id: studentId, status: 'pending' })
        \/ /\ dArg[r].route = "send-approval"
           /\ dPc[r] = "insert"
           /\ examEntryApprovals' =
                  Append(examEntryApprovals, ApprovalRow(dArg[r].user_id, "pending"))
           /\ UNCHANGED <<activeTests, userAssignedTests>>
           /\ Respond(r, 200)

\* DELETE /api/exam-entry-approvals/:user_id
DeleteApproval(r) ==
    \/ \E u \in UserIds :
          DbStart(r, [NoDbRequest EXCEPT !.route = "delete approval", !.user_id = u],
                  "delete")
    \* delete().eq('user_id', user_id).select()
    \/ /\ dArg[r].route = "delete approval"
       /\ dPc[r] = "delete"
       /\ examEntryApprovals' =
              [id \in DOMAIN examEntryApprovals |->
                  IF examEntryApprovals[id].user_id = dArg[r].user_id
                  THEN [examEntryApprovals[id] EXCEPT !.present = FALSE]
                  ELSE examEntryApprovals[id]]
       /\ UNCHANGED <<activeTests, userAssignedTests>>
       /\ Respond(r, 200)

ApprovalsNext ==
    \/ \E r \in Reqs : ApproveEntry(r)
    \/ \E r \in Reqs : SendApproval(r)
    \/ \E r \in Reqs : DeleteApproval(r)

SpecApprovals == DbInit /\ [][ApprovalsNext]_vars

OcrNext ==
    \/ PrimaryAttemptStart
    \/ PrimaryHealthCheck
    \/ PrimaryUnhealthyCatch
    \/ PrimaryDocTR
    \/ PrimaryTesseract
    \/ RetryDelay
    \/ PrimaryExhausted
    \/ FallbackHealthCheck
    \/ FallbackDocTR
    \/ FallbackTesseract

\* one extractText call on an OCRService instance, no request running
OcrCallInit ==
    LET
        OcrInit ==
            LET
                Services == {"doctr", "tesseract"}
            IN
                /\ primaryService \in Services
                /\ fallbackService \in Services
                /\ \E opt \in 0..MaxRetriesOpt : maxRetries = CtorMaxRetries(opt)
                /\ ocrPc = "loop"
                /\ attempts = 0
                /\ lastError = NoError
                /\ ocrResult = NoResult
                /\ ocrThrown = <<>>
                /\ trace = <<>>
    IN
                   OcrInit /\ ReqIdle /\ FnIdle /\ ConIdle /\ DbIdle

SpecOCR == OcrCallInit /\ [][OcrNext]_vars

\* a call cannot stay forever at an await: timers fire and every network
\* call has a timeout (5s health check, 30s OCR call)
FairSpecOCR == SpecOCR /\ WF_vars(OcrNext)

\* ------------------------------------------------------------------------
\* Properties of extractText
\* ------------------------------------------------------------------------
OcrDone == ocrPc \in {"returned", "thrown"}

TraceIdx == 1..Len(trace)

IsPrimaryHealth(e) == e.ev = "health" /\ e.phase = "primary"
IsExtract(e) == e.ev = "extract"

\* every health check made so far in the call reported unhealthy
AllHealthUnhealthy == \A i \in TraceIdx : trace[i].ev = "health" => ~trace[i].ok

\* extractTextWithDocTR has not been invoked in the call
NoDocTRExtract == \A i \in TraceIdx : ~(IsExtract(trace[i]) /\ trace[i].svc = "doctr")

\* number of iterations of the primary loop that reached their backend
NumPrimaryAttempts ==
    Cardinality({i \in TraceIdx :
        /\ trace[i].phase = "primary"
        /\ IF primaryService = "doctr" THEN trace[i].ev = "health"
                                        ELSE trace[i].ev = "extract"})

NumFallbackHealth ==
    Cardinality({i \in TraceIdx : trace[i].phase = "fallback" /\ trace[i].ev = "health"})

NumFallbackExtract ==
    Cardinality({i \in TraceIdx : trace[i].phase = "fallback" /\ trace[i].ev = "extract"})

FallbackAttempted == \E i \in TraceIdx : trace[i].phase = "fallback"

\* message of the error the fallback attempt ended with
FallbackErrorMsg ==
    LET e == trace[Len(trace)]
    IN  IF e.ev = "health" THEN UnhealthyFallbackMsg ELSE e.msg

Carries(thrown, m) == \E i \in 1..Len(thrown) : thrown[i] = m

\* C1 (as claimed): with docTR as primary and a distinct fallback, once a
\* primary health check reports unhealthy nothing more happens on the
\* primary side (no further health check, attempt or 1-second delay): every
\* later event of the call belongs to the fallback.
C1_UnhealthySkipsToFallback ==
    (primaryService = "doctr" /\ fallbackService # primaryService) =>
        \A i \in TraceIdx :
            (IsPrimaryHealth(trace[i]) /\ ~trace[i].ok) =>
                \A j \in (i + 1)..Len(trace) : trace[j].phase = "fallback"

\* C2 (as claimed): when every health check of the call was unhealthy and
\* the local fallback is configured, the finished call has returned a result
\* tagged Tesseract and extractTextWithDocTR was never invoked.
C2_AlwaysReturnsFallbackResult ==
    (OcrDone /\ primaryService = "doctr" /\ fallbackService = "tesseract"
        /\ AllHealthUnhealthy) =>
            (ocrPc = "returned" /\ ocrResult = "Tesseract" /\ NoDocTRExtract)

\* C2 (amended): when every health check made so far in the call was
\* unhealthy and the local fallback is configured, extractTextWithDocTR has
\* not been invoked; the finished call has returned a result tagged
\* Tesseract if the fallback extraction succeeded and has raised an error if
\* the fallback extraction failed.
C2_UnhealthyRemoteNeverCalled ==
    (primaryService = "doctr" /\ fallbackService = "tesseract"
        /\ AllHealthUnhealthy) =>
            /\ NoDocTRExtract
            /\ ocrPc # "pDoctr"
            /\ OcrDone =>
                /\ FallbackAttempted
                /\ IsExtract(trace[Len(trace)])
                /\ trace[Len(trace)].svc = "tesseract"
                /\ IF trace[Len(trace)].ok
                     THEN ocrPc = "returned" /\ ocrResult = "Tesseract"
                     ELSE ocrPc = "thrown" /\ ocrResult = NoResult

\* the call returned the fallback's result after unhealthy health checks only
C2_Witness ==
    /\ ocrPc = "returned"
    /\ ocrResult = "Tesseract"
    /\ primaryService = "doctr"
    /\ fallbackService = "tesseract"
    /\ maxRetries = DefaultMaxRetries
    /\ AllHealthUnhealthy
    /\ Cardinality({i \in TraceIdx : IsPrimaryHealth(trace[i])}) = maxRetries

\* C3 (as claimed): extractText raises only when every configured attempt
\* failed (maxRetries primary attempts and, with a distinct fallback, the
\* fallback attempt), and the raised error carries the last primary error
\* message and the fallback's error message.
C3_ErrorCarriesEachBackendsMessage ==
    ocrPc = "thrown" =>
        /\ \A i \in TraceIdx : IsExtract(trace[i]) => ~trace[i].ok
        /\ NumPrimaryAttempts = maxRetries
        /\ lastError # NoError
        /\ Carries(ocrThrown, lastError)
        /\ (fallbackService # primaryService) =>
                /\ FallbackAttempted
                /\ Carries(ocrThrown, FallbackErrorMsg)

\* C4: a call makes at most maxRetries primary attempts and at most one
\* fallback attempt (one health check, one extraction), no primary event
\* follows a fallback event, a successful extraction is the last event of
\* the call and ends it, a finished call takes no further step, and every
\* call finishes.
C4_StateBound ==
    /\ attempts <= maxRetries
    /\ NumPrimaryAttempts <= maxRetries
    /\ NumFallbackHealth <= 1
    /\ NumFallbackExtract <= 1
    /\ \A i \in TraceIdx : \A j \in TraceIdx :
          (i < j /\ trace[i].phase = "fallback") => trace[j].phase = "fallback"
    /\ \A i \in TraceIdx :
          (IsExtract(trace[i]) /\ trace[i].ok) => (i = Len(trace) /\ ocrPc = "returned")
    /\ FallbackAttempted => (NumPrimaryAttempts = maxRetries /\ fallbackService # primaryService)

C4_BoundedAttemptsAndTermination ==
    /\ []C4_StateBound
    /\ [][OcrDone => UNCHANGED ocrVars]_vars
    /\ <>OcrDone

\* the whole budget was used: maxRetries failed primary attempts, then a
\* successful fallback attempt
C4_Witness ==
    /\ ocrPc = "returned"
    /\ maxRetries = DefaultMaxRetries
    /\ NumPrimaryAttempts = maxRetries
    /\ NumFallbackExtract = 1
    /\ trace[Len(trace)].phase = "fallback"
    /\ trace[Len(trace)].ok

\* ------------------------------------------------------------------------
\* Properties of the LLM retry loop
\* ------------------------------------------------------------------------
PipelinePcs == {"stage1", "stage2", "stage3", "stage4", "stage5", "stage6",
                "stage7", "stage8", "respond"}

LogIdx == 1..Len(llmLog)

ParsedInLog == \E i \in LogIdx : llmLog[i] = "parsed"

\* C5: the completion is called at most 3 times and one call at a time (a
\* call is started only when every earlier one has ended); the loop is never
\* left without a structure: it is left with a parsed structure, after which
\* no call is made, or after the third failed attempt by a failure whose
\* next step is the failure response; the pipeline runs only on a parsed
\* structure.
C5_LlmRetryLoopBounded ==
    /\ llmCalls <= 3
    /\ llmAttempts = llmCalls
    /\ Len(llmLog) = IF pc = "llmCall" THEN llmCalls - 1 ELSE llmCalls
    /\ pc = "llmLoop" => (llmAttempts < 3 /\ ENABLED LlmAttemptStart)
    /\ \A i \in LogIdx : llmLog[i] = "parsed" =>
            (i = Len(llmLog) /\ pc \in PipelinePcs \cup {"done"})
    /\ structure.defined <=> ParsedInLog
    /\ pc \in PipelinePcs => (structure.defined /\ llmLog[Len(llmLog)] = "parsed")
    /\ (pc \in {"catch", "done"} /\ llmCalls > 0 /\ ~ParsedInLog) =>
            (llmCalls = 3 /\ Len(llmLog) = 3)
    /\ pc = "catch" => ENABLED RespondFailure
    /\ (pc = "done" /\ ~ParsedInLog) => (response.status = 500 /\ ~response.success)

\* two failed attempts, then a parsed structure and a success response
C5_Witness ==
    /\ pc = "done"
    /\ response.success
    /\ llmCalls = 3
    /\ llmLog = <<"api-error", "unparsable", "parsed">>
    /\ structure.defined

\* C6: after a completion with no content on attempt 1 or 2 the request has
\* not failed: it is back at the loop, where a fresh attempt is the next
\* step, or further on; after a completion with no content on attempt 3 the
\* request is on its failure path and ends with a failure response.
C6_EmptyResponseRetried ==
    \A i \in LogIdx : llmLog[i] = "empty" =>
        IF i < 3
          THEN Len(llmLog) = i =>
                  /\ pc \in {"llmLoop", "llmCall"}
                  /\ response = NoResponse
                  /\ pc = "llmLoop" => (llmAttempts = i /\ ENABLED LlmAttemptStart)
                  /\ pc = "llmCall" => llmCalls = i + 1
          ELSE /\ pc \in {"catch", "done"}
               /\ ~response.success
               /\ response.error # <<>>
               /\ pc = "done" => response.status = 500

\* three completions with no content: two retries, then the failure response
C6_Witness ==
    /\ llmLog = <<"empty", "empty", "empty">>
    /\ llmCalls = 3
    /\ pc = "done"
    /\ response.status = 500

\* ------------------------------------------------------------------------
\* Properties of the post-processing pipeline
\* ------------------------------------------------------------------------
Applied(step) == \E k \in 1..Len(applied) : applied[k] = step

AfterStage7 == Applied("enforceNumbering")

Returned == pc = "done" /\ response.success

PartIdx == 1..Len(structure.parts)

RealQuestion(q) == q.type # "divider" /\ q.type # "image"

\* C7: after stage 7 every question that is neither divider nor image, at
\* 0-based part index p and 0-based position i of its part's question
\* sequence, has number 10*p + i + 1.
C7_NumberingInvariant ==
    AfterStage7 =>
        \A p \in PartIdx : \A i \in 1..Len(structure.parts[p].questions) :
            RealQuestion(structure.parts[p].questions[i]) =>
                structure.parts[p].questions[i].number = 10 * (p - 1) + (i - 1) + 1

\* stage 7 has just replaced the number the LLM made up (7) for a question
\* of the second part that follows another entry
C7_Witness ==
    /\ pc = "stage8"
    /\ Len(structure.parts) >= 2
    /\ Len(structure.parts[2].questions) >= 2
    /\ structure.parts[2].questions[2].text = QA.text
    /\ structure.parts[2].questions[2].number = 12

\* the numbers of the real questions of a part, in sequence order
RealNumbers(part) ==
    LET real == SelectSeq(part.questions, RealQuestion)
    IN  [k \in 1..Len(real) |-> real[k].number]

\* C8 (as claimed): in a returned document the numbers of the real
\* questions of each part are contiguous and start at (part - 1)*10 + 1.
C8_ContiguousFromPartNumber ==
    Returned =>
        \A p \in PartIdx :
            LET ns == RealNumbers(structure.parts[p])
            IN  /\ Len(ns) > 0 => ns[1] = (structure.parts[p].part - 1) * 10 + 1
                /\ \A k \in 2..Len(ns) : ns[k] = ns[k - 1] + 1

\* C9 (as claimed): in a returned document the parts are in ascending order
\* of part number and no two parts have the same part number.
C9_PartsSortedUnique ==
    Returned =>
        \A i \in PartIdx : \A j \in PartIdx :
            i < j => structure.parts[i].part < structure.parts[j].part

\* the questions of all parts of ps, in order
RECURSIVE AllQuestions(_)
AllQuestions(ps) ==
    IF ps = <<>> THEN <<>> ELSE QuestionsOrEmpty(Head(ps)) \o AllQuestions(Tail(ps))

\* the parts of ps that have part number k, in order
PartsNumbered(ps, k) == SelectSeq(ps, LAMBDA part : part.part = k)

InputParts == IF parsed.hasParts THEN parsed.parts ELSE <<>>

\* C10 (as claimed): the result of mergeDuplicateParts has exactly one part
\* for each distinct part number of the input, whose questions are the
\* concatenation in encounter order of the questions of the input parts with
\* that number; the result is in ascending order of part number and holds
\* every input question exactly once.
C10_MergeCorrect ==
    pc = "stage2" =>
        LET out == structure.parts
            idx == 1..Len(out)
        IN  /\ {out[j].part : j \in idx} = {InputParts[i].part : i \in 1..Len(InputParts)}
            /\ \A i \in idx : \A j \in idx : i # j => out[i].part # out[j].part
            /\ \A j \in idx :
                  out[j].questions = AllQuestions(PartsNumbered(InputParts, out[j].part))
            /\ \A i \in idx : \A j \in idx :
                  (i < j /\ out[i].part # Absent /\ out[j].part # Absent)
                      => out[i].part < out[j].part
            /\ Len(AllQuestions(out)) = Len(AllQuestions(InputParts))
            /\ \A q \in QPool :
                  Cardinality({k \in 1..Len(AllQuestions(out)) : AllQuestions(out)[k] = q})
                    = Cardinality({k \in 1..Len(AllQuestions(InputParts)) :
                                      AllQuestions(InputParts)[k] = q})

\* ------------------------------------------------------------------------
\* Properties of the request as a whole
\* ------------------------------------------------------------------------

\* C11 (as claimed): when the parsed LLM output carries a test and a section
\* value, the returned document carries the same values; the defaults are
\* used only when they are missing.
C11_TestSectionPreserved ==
    Returned =>
        /\ parsed.test # "" => structure.test = parsed.test
        /\ parsed.section # "" => structure.section = parsed.section

\* C12 (as claimed): when final validation has found errors the request
\* still ends with a success response, and the body of that response has,
\* besides the document, a field for the validation error list.
C12_ValidationErrorsReturned ==
    (pc = "done" /\ Applied("finalValidation") /\ ~validation.valid) =>
        /\ response.success
        /\ response.status = 200
        /\ "structure" \in response.fields
        /\ response.fields \ {"success", "structure", "uploadedImages"} # {}

\* ------------------------------------------------------------------------
\* Properties of the helper functions
\* ------------------------------------------------------------------------
Count(b) == IF b THEN 1 ELSE 0

RECURSIVE SumSeq(_)
SumSeq(s) == IF s = <<>> THEN 0 ELSE Head(s) + SumSeq(Tail(s))

\* number of required fields a question, a part, a document lacks
MissingInQuestion(q) ==
    IF ~RealQuestion(q) THEN 0
    ELSE Count(q.questionId = <<>>) + Count(FalsyNum(q.number)) + Count(q.type = "")
         + Count(q.inputType = "") + Count(q.isInteractive = "")
         + Count(~q.answer.present)

MissingInPart(part) ==
    Count(FalsyNum(part.part)) + Count(part.instructions = <<>>)
    + Count(part.questionsRange = <<>>) + Count(~part.hasQuestions)
    + SumSeq([i \in 1..Len(part.questions) |-> MissingInQuestion(part.questions[i])])

MissingInDocument(doc) ==
    Count(doc.test = "") + Count(doc.section = "") + Count(~doc.hasParts)
    + SumSeq([p \in 1..Len(doc.parts) |-> MissingInPart(doc.parts[p])])

\* C13 (as claimed): validateRequiredFields never throws; for every document,
\* also one with no parts array or with a part that has no questions array,
\* it returns {valid, errors} with one error per missing required field and
\* valid exactly when there is no error.
C13_ValidatorNeverThrows ==
    (fnName = "validateRequiredFields" /\ fnPc # "call") =>
        /\ fnPc = "returned"
        /\ Len(fnResult.errors) = MissingInDocument(fnArg)
        /\ fnResult.valid <=> (fnResult.errors = <<>>)

\* positions of the dividers of qs, and of those with a non-empty list
Dividers(qs) == {i \in 1..Len(qs) : qs[i].type = "divider"}

NonEmptyDividers(qs) ==
    {i \in Dividers(qs) : qs[i].draggableVariants.present
                            /\ qs[i].draggableVariants.items # <<>>}

\* C14 (as claimed): in a part with a divider that has a non-empty list of
\* drag labels every matching question gets that list, also when another
\* divider of the part has an empty list; in a part with no divider nothing
\* changes; questions of other types, and nothing but the list of a matching
\* question, are never changed.
C14_MatchingQuestionsLinked ==
    (fnName = "linkMatchingQuestions" /\ fnPc = "returned") =>
        /\ Len(fnResult.parts) = Len(fnArg.parts)
        /\ \A p \in 1..Len(fnArg.parts) :
              LET qs == fnArg.parts[p].questions
                  out == fnResult.parts[p].questions
              IN  /\ Len(out) = Len(qs)
                  /\ \A i \in 1..Len(qs) :
                        /\ out[i] = [qs[i] EXCEPT !.draggableVariants =
                                                      out[i].draggableVariants]
                        /\ qs[i].type # "matching" => out[i] = qs[i]
                        /\ (qs[i].type = "matching" /\ NonEmptyDividers(qs) # {}) =>
                              /\ out[i].draggableVariants.present
                              /\ \E d \in NonEmptyDividers(qs) :
                                    out[i].draggableVariants.items
                                        = qs[d].draggableVariants.items
                        /\ Dividers(qs) = {} => out[i] = qs[i]

\* positions of the gap-fill questions of the scenario in a question list
GapFillPositions(qs) == {i \in 1..Len(qs) : qs[i].text = QA.text}

\* the scenario as the claim has it: the instructions are on the part only
InstructionsOnPartOnly ==
    /\ parsed.hasParts
    /\ Len(parsed.parts) = 1
    /\ LowerIncludes(parsed.parts[1].instructions[1], "map")
    /\ \A i \in GapFillPositions(parsed.parts[1].questions) :
          parsed.parts[1].questions[i].instructions = ""

\* C15 (as claimed): for two questions with no type, a blank marker in the
\* text and instructions on their part that mention "map", the returned
\* document gives both the type map-labelling and the inputType text, and,
\* when a map-flagged image was uploaded, has an injected image question
\* immediately before the first of the two.
C15_MapScenario ==
    (Returned /\ InstructionsOnPartOnly) =>
        LET qs == structure.parts[1].questions
            gaps == GapFillPositions(qs)
            first == CHOOSE i \in gaps : \A j \in gaps : i <= j
        IN  /\ Cardinality(gaps) = 2
            /\ \A i \in gaps : qs[i].type = "map-labelling" /\ qs[i].inputType = "text"
            /\ FirstMapImage(uploadedImages) > 0 =>
                  /\ first > 1
                  /\ qs[first - 1].type = "image"
                  /\ qs[first - 1].url = MapImage.url

\* the eight post-processing stages, in order
EightStages == <<"merge", "validateAndFix", "injectImages", "base64", "linkMatching",
                 "standardizeIds", "enforceNumbering", "finalValidation">>

\* the stages of the writing route
WritingStages == <<"merge", "validateAndFix", "injectImages", "base64",
                   "standardizeIds", "finalValidation">>

IsPrefix(s, t) == Len(s) <= Len(t) /\ \A k \in 1..Len(s) : s[k] = t[k]

\* C16 (as claimed): a successful request of any of the three routes has
\* applied the eight stages, each exactly once and in order, when the
\* response is sent.
C16_EightStagesOnEveryRoute ==
    Returned => applied = EightStages

\* C16 (amended): the stages of a request are applied in order and at most
\* once each, and all of them before a success response is sent; they are
\* the eight stages on the listening and the reading route and the six
\* stages of the writing route, which has no matching linkage and no
\* numbering enforcement.
C16_StagesOfTheRouteInOrder ==
    LET stages == IF endpoint = "writing" THEN WritingStages ELSE EightStages
    IN  /\ IsPrefix(applied, stages)
        /\ response.success => (pc = "done" /\ applied = stages)
        /\ pc = "respond" => applied = stages

\* a writing request has been answered after its six stages
C16_Witness ==
    /\ endpoint = "writing"
    /\ Returned
    /\ applied = WritingStages

\* C17 (as claimed): whenever a request has ended, with a success or with a
\* failure response, its temporary page-image directory and the uploaded
\* PDF file have been removed.
C17_CleanupOnEveryPath ==
    pc = "done" => (~tempDirExists /\ ~pdfExists)

\* ------------------------------------------------------------------------
\* Properties of concurrent requests
\* ------------------------------------------------------------------------
\* the request has created its directory and has not yet removed it
Working(r) == cPc[r] \in {"convert", "readdir", "ocr", "llm", "cleanup"}

\* C18 (as claimed): in every interleaving of two requests each works in a
\* directory of its own that holds its own page images only: the directory
\* is there until the request itself removes it, what the request lists and
\* what its OCR reads are the pages of its own PDF, and a request fails only
\* through a failure of its own.
C18_RequestsIsolated ==
    /\ (Working("A") /\ Working("B")) => cDir["A"] # cDir["B"]
    /\ \A r \in Reqs :
          /\ Working(r) => cFs[cDir[r]].exists
          /\ cPc[r] \in {"readdir", "ocr", "llm", "cleanup"} =>
                cFs[cDir[r]].files = PageImages(r)
          /\ cPc[r] \in {"ocr", "llm", "cleanup"} =>
                cImageFiles[r] = {f[1] : f \in PageImages(r)}
          /\ cPc[r] \in {"llm", "cleanup"} => cInput[r] = PageImages(r)
          /\ cOutcome[r] = "success" => cInput[r] = PageImages(r)

\* C19 (as claimed): cleanOCRText is idempotent: cleaning the result of a
\* cleaning gives that result again.
C19_CleanIdempotent ==
    (fnName = "cleanOCRText" /\ fnPc = "returnedAgain") => fnResult = fnArg

ParseChain == <<"direct", "cleaned", "repair", "extract">>

\* what JSON.parse makes of the text of a stage
StageParses(stage) == fnArg.raw[stage]

\* the stages that run on the argument when none parses: the repair pass
\* only when the package is there, the extraction only when there is a span
StagesThatRun ==
    SelectSeq(ParseChain, LAMBDA st : /\ st = "repair" => fnArg.jsonrepair
                                      /\ st = "extract" => fnArg.raw.hasSpan)

ParseDone == fnName = "parseJsonSafely" /\ fnPc \in {"returned", "raised"}

\* C20 (as claimed): the stages run in the order direct, cleaned, repair,
\* extract; the result of the first stage that parses is returned and no
\* later stage is run; an error is raised only when all four stages have
\* been tried and have failed.
C20_RaisesOnlyAfterFourStages ==
    ParseDone =>
        /\ IsPrefix(fnResult.tried, ParseChain)
        /\ fnPc = "returned" =>
              /\ fnResult.tried # <<>>
              /\ fnResult.value = fnResult.tried[Len(fnResult.tried)]
              /\ StageParses(fnResult.value)
        /\ \A k \in 1..(Len(fnResult.tried) - 1) : ~StageParses(fnResult.tried[k])
        /\ fnPc = "raised" =>
              /\ fnResult.tried = ParseChain
              /\ \A k \in 1..4 : ~StageParses(ParseChain[k])

\* C20 (amended): the stages that run, run in the order direct, cleaned,
\* repair, extract; the result of the first stage that parses is returned
\* and no later stage is run; a stage that fails never ends the call; an
\* error is raised only for an empty text, before any stage, or when every
\* stage that runs on the text (the repair pass only if the jsonrepair
\* package is installed, the extraction only if the text has a {...} span)
\* has been tried and has failed.
C20_RaisesOnlyAfterEveryStageThatRuns ==
    /\ (fnName = "parseJsonSafely" /\ fnPc # "call") =>
          IsPrefix(fnResult.tried, StagesThatRun)
    /\ (fnName = "parseJsonSafely" /\ fnPc \notin {"call", "returned"}) =>
          \A k \in 1..Len(fnResult.tried) : ~StageParses(fnResult.tried[k])
    /\ ParseDone =>
          /\ fnPc = "returned" =>
                /\ fnResult.tried # <<>>
                /\ fnResult.value = fnResult.tried[Len(fnResult.tried)]
                /\ StageParses(fnResult.value)
                /\ \A k \in 1..(Len(fnResult.tried) - 1) :
                      ~StageParses(fnResult.tried[k])
          /\ fnPc = "raised" =>
                \/ fnArg.raw.empty /\ fnResult.tried = <<>>
                \/ /\ ~fnArg.raw.empty
                   /\ fnResult.tried = StagesThatRun
                   /\ \A k \in 1..Len(StagesThatRun) : ~StageParses(StagesThatRun[k])

\* three stages have failed and the parse of the extracted span is returned
C20_Witness ==
    /\ fnName = "parseJsonSafely"
    /\ fnPc = "returned"
    /\ fnResult.tried = ParseChain
    /\ fnResult.value = "extract"

\* ------------------------------------------------------------------------
\* Further properties of the post-processing pipeline
\* ------------------------------------------------------------------------

\* C21 (as claimed): in a returned document a question of type divider or
\* image has no number field, whether the LLM emitted it or stage 3
\* injected it.
C21_DividerImageNoNumber ==
    Returned =>
        \A p \in PartIdx : \A i \in 1..Len(structure.parts[p].questions) :
            ~RealQuestion(structure.parts[p].questions[i]) =>
                structure.parts[p].questions[i].number = Absent

\* C22 (as claimed): each of stages 1 to 7, called on a malformed document,
\* completes without raising.
C22_StagesTotal ==
    fnName \in {"mergeDuplicateParts", "validateAndFixStructure", "injectImageObjects",
               "processBase64Images", "linkMatchingQuestions",
               "standardizeQuestionIds", "enforceQuestionNumbering"}
        => fnPc # "raised"

\* what the claim expects of the questions qs of a part: one image object,
\* for the first image flagged isMap, right before the first map-labelling
\* question unless an image question comes before it
MapImages(images) == SelectSeq(images, LAMBDA img : img.isMap)

WithMapImage(qs, test, partNo, images) ==
    LET maps == {k \in 1..Len(qs) : qs[k].type = "map-labelling"}
        first == CHOOSE k \in maps : \A j \in maps : k <= j
    IN  IF MapImages(images) = <<>> \/ maps = {}
           \/ \E j \in 1..(first - 1) : qs[j].type = "image"
          THEN qs
          ELSE [k \in 1..(Len(qs) + 1) |->
                  IF k < first THEN qs[k]
                  ELSE IF k > first THEN qs[k - 1]
                  ELSE [EmptyQuestion EXCEPT
                          !.type = "image",
                          !.url = MapImages(images)[1].url,
                          !.headline = "Map",
                          !.questionId = <<"listening", "-", test, "-", Str(partNo),
                                           "-", "map">>]]

InjectReturned == fnName = "injectImageObjects" /\ fnPc = "returned"

\* C23 (as claimed): injectImageObjects inserts, in every part with a
\* map-labelling question and no image question before the first one,
\* exactly one image question for the first isMap image right before that
\* question; no other question is added, removed or reordered; when no
\* uploaded image is flagged isMap the document is unchanged.
C23_OnlyTheMapImageInserted ==
    InjectReturned =>
        LET doc == fnArg.structure
            images == fnArg.uploadedImages
        IN  /\ MapImages(images) = <<>> => fnResult = doc
            /\ Len(fnResult.parts) = Len(doc.parts)
            /\ \A p \in 1..Len(doc.parts) :
                  fnResult.parts[p].questions =
                      WithMapImage(QuestionsOrEmpty(doc.parts[p]), doc.test,
                                   doc.parts[p].part, images)

\* C23 (amended): as claimed for the questions; apart from them the result
\* is the document itself when there is no uploaded image and otherwise a
\* JSON copy of it in which every part has a questions array (an empty one
\* if it had none), also when no uploaded image is flagged isMap.
C23_MapImageInsertedIntoJsonCopy ==
    InjectReturned =>
        LET doc == fnArg.structure
            images == fnArg.uploadedImages
            copy == JsonRoundTrip(doc)
        IN  /\ images = <<>> => fnResult = doc
            /\ images # <<>> =>
                  fnResult =
                    [copy EXCEPT !.parts =
                        [p \in 1..Len(copy.parts) |->
                            [copy.parts[p] EXCEPT
                                !.hasQuestions = TRUE,
                                !.questions =
                                    WithMapImage(QuestionsOrEmpty(copy.parts[p]), doc.test,
                                                 copy.parts[p].part, images)]]]

\* the image was put between the divider and the first of two map-labelling
\* questions, and nowhere else
C23_Witness ==
    /\ InjectReturned
    /\ Len(fnArg.structure.parts) >= 1
    /\ fnArg.structure.parts[1].questions = <<QB, QC, QC>>
    /\ Len(fnResult.parts[1].questions) = 4
    /\ fnResult.parts[1].questions[2].type = "image"
    /\ fnResult.parts[1].questions[2].url = MapImage.url

\* the <section>, <test> and <part> segments of a questionId, which is
\* written segment, dash, segment, dash, segment, dash, segment
LeadingSegments(id) == <<id[1], id[3], id[5]>>

\* C24 (as claimed): stage 7 rewrites only the last segment of the
\* questionId of a numbered question; the section, test and part segments
\* the questionId had before the stage are the same after it.
C24_LeadingSegmentsKept ==
    [][Stage7Numbering =>
          \A p \in PartIdx : \A i \in 1..Len(structure.parts[p].questions) :
              LET before == structure.parts[p].questions[i]
                  after == structure'.parts[p].questions[i]
              IN  (RealQuestion(before) /\ Len(before.questionId) = 7) =>
                      /\ Len(after.questionId) = 7
                      /\ LeadingSegments(after.questionId)
                            = LeadingSegments(before.questionId)]_vars

\* C25 (as claimed): after enforceQuestionNumbering no two questions of the
\* document that are neither divider nor image have the same number, however
\* many entries a part has.
C25_NumbersDistinct ==
    (fnName = "enforceQuestionNumbering" /\ fnPc = "returned") =>
        \A p1 \in 1..Len(fnResult.parts) : \A p2 \in 1..Len(fnResult.parts) :
            \A i1 \in 1..Len(fnResult.parts[p1].questions) :
                \A i2 \in 1..Len(fnResult.parts[p2].questions) :
                    LET q1 == fnResult.parts[p1].questions[i1]
                        q2 == fnResult.parts[p2].questions[i2]
                    IN  (RealQuestion(q1) /\ RealQuestion(q2) /\ <<p1, i1>> # <<p2, i2>>)
                            => q1.number # q2.number

\* the en-dash and the em-dash
Dashes == {EnDash, "U+2014"}

\* text with every dash replaced by a hyphen
Hyphenated(text) == [k \in 1..Len(text) |-> IF text[k] \in Dashes THEN Hyphen ELSE text[k]]

\* C26 (as claimed): after standardizeQuestionIds the questionId and the
\* numberRange of every question are those of the argument with each
\* en-dash and em-dash replaced by a hyphen, so none is left; nothing else
\* has changed, and a second application changes nothing.
C26_DashesReplaced ==
    (fnName = "standardizeQuestionIds" /\ fnPc = "returned") =>
        LET doc == fnArg.structure
        IN  /\ fnResult =
                  [doc EXCEPT !.parts =
                      [p \in 1..Len(doc.parts) |->
                          [doc.parts[p] EXCEPT !.questions =
                              [i \in 1..Len(doc.parts[p].questions) |->
                                  [doc.parts[p].questions[i] EXCEPT
                                      !.questionId = Hyphenated(@),
                                      !.numberRange = Hyphenated(@)]]]]]
            /\ \A p \in 1..Len(fnResult.parts) :
                  \A i \in 1..Len(fnResult.parts[p].questions) :
                      LET q == fnResult.parts[p].questions[i]
                      IN  /\ \A k \in 1..Len(q.questionId) : q.questionId[k] \notin Dashes
                          /\ \A k \in 1..Len(q.numberRange) : q.numberRange[k] \notin Dashes
            /\ standardizeQuestionIds(fnResult) = fnResult

C28_AtMostOneActiveTest ==
    Cardinality({t \in TestIds : activeTests[t] = "active"}) <= 1

\* ------------------------------------------------------------------------
\* C29: after any sequence of POST /api/admin/assign-test-to-user and
\* POST /api/user-assigned-tests requests, interleaved or not, a user has
\* at most one row in user_assigned_tests.
RowsOfUser(u) ==
    LET RECURSIVE Sum(_)
        Sum(ts) == IF ts = {} THEN 0
                   ELSE LET t == CHOOSE x \in ts : TRUE
                        IN  userAssignedTests[u, t] + Sum(ts \ {t})
    IN  Sum(TestIds)

C29_AtMostOneAssignment == \A u \in UserIds : RowsOfUser(u) <= 1

\* ------------------------------------------------------------------------
\* C30: the status of an exam entry approval changes only from pending to
\* approved or rejected, and only by the update of an approve-entry request
\* that answers 200; an approve-entry request (to approve or to reject) for
\* a row that is not pending (approved or rejected before, by an earlier
\* request or by the other of two racing requests) leaves the table as it
\* is and answers 404; so of the approve-entry requests for one row exactly
\* one takes effect.

\* handler r completes the update of an approve-entry request in this step
ApproveEntryAnswers(r) ==
    /\ dArg[r].route = "approve-entry"
    /\ dPc[r] = "update"
    /\ dPc'[r] = "idle"

\* the responses with the given status to approve-entry requests for row id
ApproveResponses(id, code) ==
    {i \in DOMAIN dLog : /\ dLog[i].req.route = "approve-entry"
                         /\ dLog[i].req.approval_id = id
                         /\ dLog[i].status = code}

StatusChangesOnlyByApproveEntry ==
    \A id \in DOMAIN examEntryApprovals :
        examEntryApprovals'[id].status # examEntryApprovals[id].status =>
            /\ examEntryApprovals[id].status = "pending"
            /\ examEntryApprovals'[id].status \in {"approved", "rejected"}
            /\ \E r \in Reqs : /\ ApproveEntryAnswers(r)
                               /\ dArg[r].approval_id = id
                               /\ dLog'[Len(dLog')].status = 200

ProcessedRowAnswers404 ==
    \A r \in Reqs :
        ApproveEntryAnswers(r) =>
            LET id == dArg[r].approval_id
                pendingRow == /\ id \in DOMAIN examEntryApprovals
                              /\ examEntryApprovals[id].present
                              /\ examEntryApprovals[id].status = "pending"
            IN  IF pendingRow
                THEN /\ dLog'[Len(dLog')].status = 200
                     /\ examEntryApprovals'[id].status =
                            IF dArg[r].action = "approve" THEN "approved" ELSE "rejected"
                ELSE /\ dLog'[Len(dLog')].status = 404
                     /\ examEntryApprovals' = examEntryApprovals

ExactlyOneTakesEffect ==
    \A id \in DOMAIN examEntryApprovals :
        Cardinality(ApproveResponses(id, 200)) =
            IF examEntryApprovals[id].status \in {"approved", "rejected"} THEN 1 ELSE 0

C30_ApprovalProcessedOnce ==
    /\ []ExactlyOneTakesEffect
    /\ [][StatusChangesOnlyByApproveEntry /\ ProcessedRowAnswers404]_vars

\* two approve-entry requests for the same pending row were both received
\* before either was answered; one got 200 and the other 404
C30_Witness ==
    \E id \in DOMAIN examEntryApprovals :
        \E i, j, k, l \in DOMAIN dLog :
            /\ i < j /\ j < k /\ k < l
            /\ \A n \in {i, j, k, l} : /\ dLog[n].req.route = "approve-entry"
                                       /\ dLog[n].req.approval_id = id
            /\ dLog[i].status = 0 /\ dLog[j].status = 0
            /\ {dLog[k].status, dLog[l].status} = {200, 404}
            /\ examEntryApprovals[id].status \in {"approved", "rejected"}

====
